---- MODULE Spec2Model ----
(***************************************************************************)
(* Model of Mbadhshah/cdn_modules.                                         *)
(*                                                                         *)
(* Part I  (specification Spec): the Jog/Simulation Sequencer of           *)
(*   src/modules/pnp/magneticpnp.jsx (PickAndPlacePage): the refs          *)
(*   gcodeQueueRef, currentGcodeIndexRef, waitingForOkRef, isSimulatingRef, *)
(*   the React state they depend on, the 50 ms timers, and the device       *)
(*   transport that answers every command with "ok".                        *)
(*   SpecLive is Spec with the fairness of message delivery and timers.     *)
(* Part II (specification SpecEmit): the Shape Normalizer and the G-code    *)
(*   Emitter of src/unnamed/part_000 and src/unnamed/part_001.              *)
(*   SpecLayout: placing and dragging the items (part_000) and the drawing  *)
(*   of src/modules/pnp/Plotter.jsx.                                        *)
(*   SpecAspect: the width/height settings of an item and of the plotter    *)
(*   drawing with keepProportions.                                          *)
(* Part III (specification SpecPath): one <path> element read by            *)
(*   tokenizePathD, explodePathToSegments and parsePathToSegments.          *)
(*   SpecFlatten: adaptiveCubic and adaptiveQuad of part_001 on one curve.  *)
(*   SpecUses: the <use> expansion of part_001 on one document.             *)
(*   SpecUpload: handleFile and its FileReader callbacks.                   *)
(***************************************************************************)
EXTENDS Integers, Sequences, FiniteSets, TLC

\* ------------------------------------------------------------------ bounds
MaxBlocks == 3      \* workspace blocks (one G-code line each)
MaxCount == 2       \* simulationCount (loops of the block list)
MaxInFlight == 2    \* "ok" answers in flight when a manual command is sent
MaxQueue == 3       \* lines of a run (blocks x loops)

\* --------------------------------------------------------------- variables
VARIABLES
  workspaceBlocks,    \* useState([]): the block list, as the line each block generates
  simulationCount,    \* useState(1)
  connectionStatus,   \* useConnection().connectionStatus of the latest render
  capturedStatus,     \* connectionStatus closed over by the memoized sendNextGcodeLine
  gcodeQueue,         \* gcodeQueueRef.current
  currentGcodeIndex,  \* currentGcodeIndexRef.current
  waitingForOk,       \* waitingForOkRef.current
  isSimulatingRef,    \* isSimulatingRef.current
  isSimulating,       \* useState(false)
  timers,             \* pending setTimeout callbacks, oldest first: the status each closure sees
  acks,               \* "ok" answers in flight, oldest first, each tagged with its command
  alerts,             \* "Simulation completed!" alerts raised since the last run was started
  \* history (not program state): what the transport saw of the run in progress
  started,            \* a run has been started
  runLen,             \* length of the queue the run was started with
  runSent,            \* indices of the run's lines handed to sendWebSocketMessage, in order
  okCount,            \* "ok"s accepted by handleOkResponse in the run
  txPending,          \* a queue line was handed over and no "ok" was accepted since
  devAcked,           \* indices of the run's lines whose own "ok" reached the page
  lostDuringRun,      \* the connection was lost while the run was active
  \* the plotter pages (Part II)
  items,              \* useState([]): the placed items
  plot000,            \* the program generateGCode of part_000 last produced
  plot001,            \* the program generateGCode of part_001 last produced
  \* placing the items (part_000) and the single drawing of Plotter.jsx
  activeId,           \* useState(null): the selected item (0 for null)
  dragMode,           \* useState('NONE')
  dragItemIdRef,      \* dragItemIdRef.current (0 for null)
  dragged,            \* history: the item the last handler dragged (0 for none)
  plotter,            \* Plotter.jsx: [dragMode, settings, originalSize, dragged (history)]
  \* one <path> element on its way through sampleElement
  pathIn,             \* the element: its "d" and CTM (and how d was written)
  tokenized,          \* what tokenizePathD returned for d
  segments000,        \* what explodePathToSegments (part_000) returned
  segments001,        \* what parsePathToSegments (part_001) returned
  \* loading a file (part_000, part_001)
  bezier,             \* a Bezier on its way through adaptiveCubic / adaptiveQuad
  uses,               \* a <use> on its way through expandUsesInClone
  upload              \* pendingUploadsRef.current, isUploading; history: the reads
                      \* outstanding, a selection was made while reads were outstanding

seqVars == <<workspaceBlocks, simulationCount, connectionStatus, capturedStatus,
             gcodeQueue, currentGcodeIndex, waitingForOk, isSimulatingRef,
             isSimulating, timers, acks, alerts, started, runLen, runSent,
             okCount, txPending, devAcked, lostDuringRun>>

emitVars == <<items, plot000, plot001>>

layoutVars == <<activeId, dragMode, dragItemIdRef, dragged, plotter>>

fileVars == <<bezier, uses, upload>>

pathVars == <<pathIn, tokenized, segments000, segments001, fileVars>>

vars == <<seqVars, emitVars, layoutVars, pathVars>>

\* ----------------------------------------------------------------- helpers
\* The line a block generates (generateGcode: "G0 X.. Y.. Z.." for a motion block,
\* "M03"/"M05" for a vacuum block). The sequencer never looks into a line, so one
\* line text stands for all of them.
BlockLines == {"G0"}

\* An "ok" in flight is tagged with the command it answers: line idx of the current
\* run ("cur"), a line of an earlier run ("old"), or a manual command ("manual").
Manual == [of |-> "manual", idx |-> 0]
Cur(i) == [of |-> "cur", idx |-> i]
Old == [of |-> "old", idx |-> 0]
Stale(q) == [k \in 1..Len(q) |-> IF q[k].of = "cur" THEN Old ELSE q[k]]

RECURSIVE Repeat(_, _)
Repeat(lines, n) == IF n = 0 THEN <<>> ELSE Repeat(lines, n - 1) \o lines

\* generateGcode + the split/trim/filter of handleSimulate: one line per block
generateGcode(blocks) == blocks

\* sendGcode(cmd) under the connectionStatus its closure sees: the commands handed
\* to sendWebSocketMessage (none when cmd is empty or the status is not 'connected').
sendGcode(cmd, status) ==
  IF cmd = "" \/ status # "connected" THEN <<>> ELSE <<cmd>>

\* sendNextGcodeLine on the refs r = [queue, index, waiting, simRef, sim]:
\* the refs afterwards, the commands handed to the transport, the alerts raised.
sendNextGcodeLine(r, status) ==
  IF r.index >= Len(r.queue)
    THEN [queue |-> <<>>, index |-> 0, waiting |-> FALSE, simRef |-> FALSE,
          sim |-> FALSE, out |-> <<>>, alert |-> 1]
  ELSE IF r.waiting
    THEN [queue |-> r.queue, index |-> r.index, waiting |-> r.waiting,
          simRef |-> r.simRef, sim |-> r.sim, out |-> <<>>, alert |-> 0]
  ELSE LET line == r.queue[r.index + 1] IN
    IF line # ""
      THEN [queue |-> r.queue, index |-> r.index, waiting |-> TRUE,
            simRef |-> r.simRef, sim |-> r.sim,
            out |-> sendGcode(line, status), alert |-> 0]
      ELSE [queue |-> r.queue, index |-> r.index, waiting |-> r.waiting,
            simRef |-> r.simRef, sim |-> r.sim, out |-> <<>>, alert |-> 0]

Refs == [queue |-> gcodeQueue, index |-> currentGcodeIndex, waiting |-> waitingForOk,
         simRef |-> isSimulatingRef, sim |-> isSimulating]

\* The device answers "ok" to every G.. / M.. command that reaches it; a command
\* handed over while the link is down does not reach it.
DeviceAnswers(out, tag) ==
  IF out # <<>> /\ connectionStatus = "connected" THEN <<tag>> ELSE <<>>

\* ------------------------------------------------------------------- Init
InitSeq ==
  /\ workspaceBlocks = <<>>
  /\ simulationCount = 1
  /\ connectionStatus \in {"connected", "disconnected"}
  /\ capturedStatus = connectionStatus
  /\ gcodeQueue = <<>>
  /\ currentGcodeIndex = 0
  /\ waitingForOk = FALSE
  /\ isSimulatingRef = FALSE
  /\ isSimulating = FALSE
  /\ timers = <<>>
  /\ acks = <<>>
  /\ alerts = 0
  /\ started = FALSE
  /\ runLen = 0
  /\ runSent = <<>>
  /\ okCount = 0
  /\ txPending = FALSE
  /\ devAcked = {}
  /\ lostDuringRun = FALSE

\* ---------------------------------------------------------------- actions
\* The refs and the React state after a call of sendNextGcodeLine that returned r.
SetRefs(r) ==
  /\ gcodeQueue' = r.queue
  /\ currentGcodeIndex' = r.index
  /\ waitingForOk' = r.waiting
  /\ isSimulatingRef' = r.simRef
  /\ isSimulating' = r.sim

\* handleDrop: a palette block is dropped on the workspace. The new workspaceBlocks
\* array re-creates the memoized sendNextGcodeLine, which closes over this render's
\* sendGcode and so over this render's connectionStatus.
handleDrop ==
  /\ UNCHANGED <<emitVars, layoutVars, pathVars>>
  /\ Len(workspaceBlocks) < MaxBlocks
  /\ \E b \in BlockLines : workspaceBlocks' = Append(workspaceBlocks, b)
  /\ capturedStatus' = connectionStatus
  /\ UNCHANGED <<simulationCount, connectionStatus, gcodeQueue, currentGcodeIndex,
                 waitingForOk, isSimulatingRef, isSimulating, timers, acks, alerts,
                 started, runLen, runSent, okCount, txPending, devAcked,
                 lostDuringRun>>

\* handleDeleteBlock: one block is filtered out of the workspace.
handleDeleteBlock ==
  /\ UNCHANGED <<emitVars, layoutVars, pathVars>>
  /\ \E i \in 1..Len(workspaceBlocks) :
       workspaceBlocks' = SubSeq(workspaceBlocks, 1, i - 1)
                            \o SubSeq(workspaceBlocks, i + 1, Len(workspaceBlocks))
  /\ capturedStatus' = connectionStatus
  /\ UNCHANGED <<simulationCount, connectionStatus, gcodeQueue, currentGcodeIndex,
                 waitingForOk, isSimulatingRef, isSimulating, timers, acks, alerts,
                 started, runLen, runSent, okCount, txPending, devAcked,
                 lostDuringRun>>

\* The loop-count input (disabled while isSimulating): Math.max(1, parseInt(value) || 1).
setSimulationCount ==
  /\ UNCHANGED <<emitVars, layoutVars, pathVars>>
  /\ ~isSimulating
  /\ \E n \in 1..MaxCount : n # simulationCount /\ simulationCount' = n
  /\ UNCHANGED <<workspaceBlocks, connectionStatus, capturedStatus, gcodeQueue,
                 currentGcodeIndex, waitingForOk, isSimulatingRef, isSimulating,
                 timers, acks, alerts, started, runLen, runSent, okCount, txPending,
                 devAcked, lostDuringRun>>

\* handleSimulate without the "Simulation already in progress!" early return.
handleSimulate_noBusyGuard ==
  /\ UNCHANGED <<emitVars, layoutVars, pathVars>>
  /\ Len(workspaceBlocks) # 0
  /\ connectionStatus = "connected"
  /\ LET lines == generateGcode(workspaceBlocks)
         allLines == Repeat(lines, simulationCount)
         r == sendNextGcodeLine([queue |-> allLines, index |-> 0, waiting |-> FALSE,
                                 simRef |-> TRUE, sim |-> TRUE], capturedStatus)
     IN /\ Len(allLines) <= MaxQueue
        /\ SetRefs(r)
        /\ alerts' = r.alert
        /\ acks' = Stale(acks) \o DeviceAnswers(r.out, Cur(0))
        /\ started' = TRUE
        /\ runLen' = Len(allLines)
        /\ runSent' = IF r.out # <<>> THEN Append(runSent, 0) ELSE runSent
        /\ okCount' = 0
        /\ txPending' = (txPending \/ r.out # <<>>)
        /\ devAcked' = {}
        /\ lostDuringRun' = FALSE
  /\ UNCHANGED <<workspaceBlocks, simulationCount, connectionStatus, capturedStatus,
                 timers>>

\* handleSimulate (startRun): the three early returns, then the queue is built, the
\* refs are reset and the first line is sent through sendNextGcodeLine.
handleSimulate ==
  /\ UNCHANGED <<emitVars, layoutVars, pathVars>>
  /\ Len(workspaceBlocks) # 0
  /\ connectionStatus = "connected"
  /\ ~isSimulating
  /\ LET lines == generateGcode(workspaceBlocks)
         allLines == Repeat(lines, simulationCount)
         r == sendNextGcodeLine([queue |-> allLines, index |-> 0, waiting |-> FALSE,
                                 simRef |-> TRUE, sim |-> TRUE], capturedStatus)
     IN /\ Len(lines) # 0
        /\ Len(allLines) <= MaxQueue
        /\ SetRefs(r)
        /\ alerts' = r.alert
        /\ acks' = Stale(acks) \o DeviceAnswers(r.out, Cur(0))
        /\ started' = TRUE
        /\ runLen' = Len(allLines)
        /\ runSent' = IF r.out # <<>> THEN <<0>> ELSE <<>>
        /\ okCount' = 0
        /\ txPending' = (txPending \/ r.out # <<>>)
        /\ devAcked' = {}
        /\ lostDuringRun' = FALSE
  /\ UNCHANGED <<workspaceBlocks, simulationCount, connectionStatus, capturedStatus,
                 timers>>

\* handleOkResponse on the refs: TRUE when the "ok" is taken as the answer to the
\* outstanding line.
handleOkResponse == isSimulatingRef /\ waitingForOk

\* handleWebSocketMessage for a message "ok" (or one starting with "ok"): while a
\* simulation is on, handleOkResponse advances the index and arms the 50 ms timer.
handleWebSocketMessage ==
  /\ UNCHANGED <<emitVars, layoutVars, pathVars>>
  /\ acks # <<>>
  /\ connectionStatus = "connected"
  /\ acks' = Tail(acks)
  /\ devAcked' = IF Head(acks).of = "cur" THEN devAcked \cup {Head(acks).idx}
                                          ELSE devAcked
  /\ IF isSimulatingRef /\ handleOkResponse
       THEN /\ waitingForOk' = FALSE
            /\ currentGcodeIndex' = currentGcodeIndex + 1
            /\ timers' = Append(timers, capturedStatus)
            /\ okCount' = okCount + 1
            /\ txPending' = FALSE
       ELSE UNCHANGED <<waitingForOk, currentGcodeIndex, timers, okCount, txPending>>
  /\ UNCHANGED <<workspaceBlocks, simulationCount, connectionStatus, capturedStatus,
                 gcodeQueue, isSimulatingRef, isSimulating, alerts, started, runLen,
                 runSent, lostDuringRun>>

\* The 50 ms timeout armed by handleOkResponse fires and calls the sendNextGcodeLine
\* its closure holds.
timeout ==
  /\ UNCHANGED <<emitVars, layoutVars, pathVars>>
  /\ timers # <<>>
  /\ LET r == sendNextGcodeLine(Refs, Head(timers))
     IN /\ SetRefs(r)
        /\ alerts' = alerts + r.alert
        /\ acks' = acks \o DeviceAnswers(r.out, Cur(currentGcodeIndex))
        /\ txPending' = (txPending \/ r.out # <<>>)
        /\ IF r.simRef
             THEN /\ runSent' = IF r.out # <<>> THEN Append(runSent, currentGcodeIndex)
                                                ELSE runSent
                  /\ UNCHANGED <<runLen, okCount, devAcked, lostDuringRun>>
             ELSE \* the run is over: its history is dropped
                  /\ runSent' = <<>>
                  /\ runLen' = 0
                  /\ okCount' = 0
                  /\ devAcked' = {}
                  /\ lostDuringRun' = FALSE
  /\ timers' = Tail(timers)
  /\ UNCHANGED <<workspaceBlocks, simulationCount, connectionStatus, capturedStatus,
                 started>>

\* jog (and the vacuum button): a command sent outside the sequencer, through the
\* current render's sendGcode; the device answers it with "ok" like any other.
jog ==
  /\ UNCHANGED <<emitVars, layoutVars, pathVars>>
  /\ connectionStatus = "connected"
  /\ \E i \in 1..Len(workspaceBlocks) : workspaceBlocks[i] = "G0"
  /\ Len(acks) < MaxInFlight
  /\ acks' = acks \o DeviceAnswers(sendGcode("G0", connectionStatus), Manual)
  /\ UNCHANGED <<workspaceBlocks, simulationCount, connectionStatus, capturedStatus,
                 gcodeQueue, currentGcodeIndex, waitingForOk, isSimulatingRef,
                 isSimulating, timers, alerts, started, runLen, runSent, okCount,
                 txPending, devAcked, lostDuringRun>>

\* A lost connection that cancels the run (the page has no such handler)
disconnect_cancels ==
  /\ UNCHANGED <<emitVars, layoutVars, pathVars>>
  /\ connectionStatus = "connected"
  /\ connectionStatus' = "disconnected"
  /\ isSimulatingRef' = FALSE
  /\ isSimulating' = FALSE
  /\ waitingForOk' = FALSE
  /\ gcodeQueue' = <<>>
  /\ currentGcodeIndex' = 0
  /\ runSent' = <<>>
  /\ runLen' = 0
  /\ okCount' = 0
  /\ devAcked' = {}
  /\ txPending' = FALSE
  /\ lostDuringRun' = FALSE
  /\ UNCHANGED <<workspaceBlocks, simulationCount, capturedStatus, timers, acks, alerts,
                 started>>

\* The connection context reports a lost / restored connection. No handler of the
\* page touches the sequencer refs on a status change.
disconnect ==
  /\ UNCHANGED <<emitVars, layoutVars, pathVars>>
  /\ connectionStatus = "connected"
  /\ connectionStatus' = "disconnected"
  /\ lostDuringRun' = (lostDuringRun \/ isSimulatingRef)
  /\ UNCHANGED <<workspaceBlocks, simulationCount, capturedStatus, gcodeQueue,
                 currentGcodeIndex, waitingForOk, isSimulatingRef, isSimulating,
                 timers, acks, alerts, started, runLen, runSent, okCount, txPending,
                 devAcked>>

connect ==
  /\ UNCHANGED <<emitVars, layoutVars, pathVars>>
  /\ connectionStatus = "disconnected"
  /\ connectionStatus' = "connected"
  /\ UNCHANGED <<workspaceBlocks, simulationCount, capturedStatus, gcodeQueue,
                 currentGcodeIndex, waitingForOk, isSimulatingRef, isSimulating,
                 timers, acks, alerts, started, runLen, runSent, okCount, txPending,
                 devAcked, lostDuringRun>>

\* ======================================================================
\* Part II (specification SpecEmit): the Shape Normalizer and the G-code
\* Emitter of the two plotter pages, src/unnamed/part_000 (ggcode-style,
\* connectivity-aware) and src/unnamed/part_001 (one stroke per path segment),
\* run on the same placed items.
\*
\* Numbers. Path coordinates are whole user units. Bed coordinates are exact, in
\* half micrometres (1 mm = 2000); the emitted words X Y I J are in micrometres
\* (three decimals of a millimetre). Settings are in micrometres.
\* ======================================================================
Abs(n) == IF n < 0 THEN -n ELSE n
Max(a, b) == IF a > b THEN a ELSE b
Min(a, b) == IF a < b THEN a ELSE b

RECURSIVE GCD(_, _)
GCD(a, b) == IF b = 0 THEN a ELSE GCD(b, a % b)

\* Math.sqrt on a whole number: exact on squares, rounded down otherwise.
RECURSIVE SqrtBetween(_, _, _)
SqrtBetween(n, lo, hi) ==
  IF lo >= hi THEN lo
  ELSE LET mid == (lo + hi + 1) \div 2
       IN IF mid * mid <= n THEN SqrtBetween(n, mid, hi) ELSE SqrtBetween(n, lo, mid - 1)
Sqrt(n) == SqrtBetween(n, 0, Min(n, 46340))

\* Math.round(n / d), d > 0: the nearest whole number, ties towards +Infinity.
Round(n, d) == (2 * n + d) \div (2 * d)
\* (n / d).toFixed(..): the nearest, ties away from zero.
toFixed(n, d) == IF n < 0 THEN -((2 * (-n) + d) \div (2 * d)) ELSE (2 * n + d) \div (2 * d)

\* fmt of ggcodeGenerateGCode (scale = 1) on a bed coordinate: (n * scale).toFixed(3)
fmt(n) == toFixed(n, 2)
\* roundGcode on a bed coordinate: Math.round(num * 1000) / 1000
roundGcode(n) == Round(n, 2)

\* DISCONTINUOUS_MM = 0.05 mm
DISCONTINUOUS_MM == 100
\* Math.hypot(dx, dy) > DISCONTINUOUS_MM
Discontinuous(dx, dy) ==
  \/ Abs(dx) > DISCONTINUOUS_MM
  \/ Abs(dy) > DISCONTINUOUS_MM
  \/ dx * dx + dy * dy > DISCONTINUOUS_MM * DISCONTINUOUS_MM

\* A call evaluates its arguments once, before the body runs.  Where a value is
\* threaded through a loop, the model writes  CHOOSE r \in {F(v) : v \in {x}} : TRUE
\* for F(x): x is computed first, then F on its value.

pt(x, y) == [x |-> x, y |-> y]
Identity == [a |-> 1, b |-> 0, c |-> 0, d |-> 1, e |-> 0, f |-> 0]
\* applyCtm of sampleElement: the element's CTM applied to a point
applyCtm(ctm, p) == [x |-> p.x * ctm.a + p.y * ctm.c + ctm.e,
                     y |-> p.x * ctm.b + p.y * ctm.d + ctm.f]

\* ------------------------------------------------------- G-code lines
Blank == [g |-> "", ax |-> "", x |-> 0, y |-> 0, z |-> 0, i |-> 0, j |-> 0,
          f |-> 0, run |-> FALSE]
Word(w) == [Blank EXCEPT !.g = w]
\* G0 Z<zUp> F<travel>, G1 Z<zDown> F<work>
MoveZ(g, z, f) == [Blank EXCEPT !.g = g, !.ax = "Z", !.z = z, !.f = f]
\* G0 / G1 X.. Y.. F..
MoveXY(g, x, y, f) == [Blank EXCEPT !.g = g, !.ax = "XY", !.x = x, !.y = y, !.f = f]
\* G2 / G3 X.. Y.. I.. J.. F..
\* ArcXY with the center offset written the wrong way round (I for J)
ArcXY_swapIJ(g, x, y, i, j, f) ==
  [Blank EXCEPT !.g = g, !.ax = "XY", !.x = x, !.y = y, !.i = j, !.j = i, !.f = f]
ArcXY(g, x, y, i, j, f) ==
  [Blank EXCEPT !.g = g, !.ax = "XY", !.x = x, !.y = y, !.i = i, !.j = j, !.f = f]
\* The G1 moves along a path sampled with getPointAtLength, the last one to (x, y).
SampledXY(x, y, f) == [MoveXY("G1", x, y, f) EXCEPT !.run = TRUE]

\* DEFAULT_SETTINGS, in micrometres and mm/min
DEFAULT_SETTINGS == [width |-> 100000, height |-> 100000, keepProportions |-> TRUE,
                     posX |-> 0, posY |-> 0,
                     zUp |-> 5000, zDown |-> 0, workSpeed |-> 1000, travelSpeed |-> 6000]

\* ------------------------------------------- part_000: shape normalizer
\* ------------------------------------------------------ path data
\* A path "d" as the regular expressions read it: command letters and numbers
Cmd(c) == [t |-> "cmd", c |-> c, v |-> 0]
Num(v) == [t |-> "num", c |-> "", v |-> v]
\* { cmd, args }
PathCmd(c, a) == [cmd |-> c, args |-> a]

argCount(c) ==
  CASE c \in {"M", "m", "L", "l", "T", "t"} -> 2
    [] c \in {"H", "h", "V", "v"} -> 1
    [] c \in {"C", "c"} -> 6
    [] c \in {"S", "s", "Q", "q"} -> 4
    [] c \in {"A", "a"} -> 7
    [] OTHER -> 0

implicitNext_same(c) == c

implicitNext(c) == IF c \in {"M", "m"} THEN (IF c = "m" THEN "l" ELSE "L") ELSE c

\* The numbers of tokens from position i on, n at most, up to the next letter
RECURSIVE takeArgs(_, _, _)
takeArgs(tokens, i, n) ==
  IF n = 0 \/ i > Len(tokens) \/ tokens[i].t # "num" THEN <<>>
  ELSE <<tokens[i].v>> \o takeArgs(tokens, i + 1, n - 1)

\* The loop of tokenizePathD from token i on; lastCmd = "" is null
RECURSIVE tokenizeFrom(_, _, _)
tokenizeFrom(tokens, i, lastCmd) ==
  IF i > Len(tokens) THEN <<>>
  ELSE LET isLetter == tokens[i].t = "cmd"
           cmd == IF isLetter THEN tokens[i].c ELSE lastCmd
           j == IF isLetter THEN i + 1 ELSE i
           n == argCount(cmd)
           args == takeArgs(tokens, j, n)
       IN IF cmd = "" THEN <<>>
          ELSE IF n = 0 THEN <<PathCmd(cmd, <<>>)>> \o tokenizeFrom(tokens, j, "")
          ELSE IF Len(args) < n THEN <<>>
          ELSE <<PathCmd(cmd, args)>> \o tokenizeFrom(tokens, j + n, implicitNext(cmd))
tokenizePathD(d) == tokenizeFrom(d, 1, "")

\* commandPattern of explodePathToSegments, /([a-zA-Z])([^a-zA-Z]*)/g: each letter
\* with all the numbers that follow it up to the next letter
RECURSIVE commandPattern(_)
commandPattern(d) ==
  IF d = <<>> THEN <<>>
  ELSE LET last == d[Len(d)]
           before == commandPattern(SubSeq(d, 1, Len(d) - 1))
       IN IF last.t = "cmd" THEN Append(before, PathCmd(last.c, <<>>))
          ELSE IF before = <<>> THEN <<>>
          ELSE [before EXCEPT ![Len(before)].args = Append(@, last.v)]

\* The "d" attribute that spells the commands cmds out
RECURSIVE pathData(_)
pathData(cmds) ==
  IF cmds = <<>> THEN <<>>
  ELSE <<Cmd(cmds[1].cmd)>> \o [n \in 1..Len(cmds[1].args) |-> Num(cmds[1].args[n])]
         \o pathData(Tail(cmds))

isRelative(c) == c \in {"m", "l", "h", "v", "z", "a", "c", "s", "q", "t"}
toLowerCase(c) ==
  CASE c \in {"M", "m"} -> "m" [] c \in {"L", "l"} -> "l" [] c \in {"H", "h"} -> "h"
    [] c \in {"V", "v"} -> "v" [] c \in {"Z", "z"} -> "z" [] c \in {"A", "a"} -> "a"
    [] c \in {"C", "c"} -> "c" [] c \in {"S", "s"} -> "s" [] c \in {"Q", "q"} -> "q"
    [] c \in {"T", "t"} -> "t"
    [] OTHER -> c

\* undefined (an argument read beyond args.length) and NaN (arithmetic on it)
NaN == -1000000000
plus(a, b) == IF a = NaN \/ b = NaN THEN NaN ELSE a + b
\* 2 * current - lastControl
reflect(c, l) == IF c = NaN \/ l = NaN THEN NaN ELSE 2 * c - l
\* a !== b
differ(a, b) == a = NaN \/ b = NaN \/ a # b
\* pt(x, y) of explodePathToSegments: applyCtm({ x, y })
ptCtm(ctm, x, y) == IF x = NaN \/ y = NaN THEN pt(NaN, NaN) ELSE applyCtm(ctm, pt(x, y))

NoParams == [has |-> FALSE, rx |-> 0, ry |-> 0, rot |-> 0, large |-> 0, sweep |-> 0]
NoD == [ok |-> FALSE, x |-> 0, y |-> 0]
NoCurve == [type |-> "", x1 |-> 0, y1 |-> 0, x2 |-> 0, y2 |-> 0]
\* { type: 'line', p1, p2, params: {} }
LineSeg(p1, p2) ==
  [type |-> "line", p1 |-> p1, p2 |-> p2, params |-> NoParams, d |-> NoD, curve |-> NoCurve]
\* { type: 'arc', d, p1, p2, params: { rx, ry, rot, large, sweep } }; of d the model
\* keeps the end point of the path it describes (in path coordinates).
ArcSeg(p1, p2, rx, ry, rot, large, sweep, dEnd) ==
  [type |-> "arc", p1 |-> p1, p2 |-> p2,
   params |-> [has |-> TRUE, rx |-> rx, ry |-> ry, rot |-> rot, large |-> large,
               sweep |-> sweep],
   d |-> dEnd, curve |-> NoCurve]
\* { type: 'curve', d, p1, p2, params: { type, x1, y1, x2, y2, x, y } }, x and y of
\* the params being the end point d is kept by; a quadratic has no x2, y2
CurveSeg(type, p1, p2, x1, y1, x2, y2, dEnd) ==
  [type |-> "curve", p1 |-> p1, p2 |-> p2, params |-> NoParams, d |-> dEnd,
   curve |-> [type |-> type, x1 |-> x1, y1 |-> y1, x2 |-> x2, y2 |-> y2]]

\* The start of explodePathToSegments: current point, subpath start, last control
\* point, lastCmdWasCurve, isCurveBlock
ExplodeStart ==
  [x |-> 0, y |-> 0, sx |-> 0, sy |-> 0, lcx |-> 0, lcy |-> 0, curve |-> FALSE,
   block |-> FALSE]

\* explodePathToSegments from command k of the matches d of the command pattern
\* on, at argument i of that command (0: the command is entered)
RECURSIVE explodeFrom(_, _, _, _, _)
explodeFrom(d, k, i, current, ctm) ==
  IF k > Len(d) THEN <<>>
  ELSE
    LET command(cur) ==
          LET letter == d[k].cmd
              args == d[k].args
              lowerCmd == toLowerCase(letter)
              rel == isRelative(letter)
              arg(n) == IF n <= Len(args) THEN args[n] ELSE NaN
              ax(n) == IF rel THEN plus(cur.x, arg(n)) ELSE arg(n)
              ay(n) == IF rel THEN plus(cur.y, arg(n)) ELSE arg(n)
              here == ptCtm(ctm, cur.x, cur.y)
              goto(x, y) == [cur EXCEPT !.x = x, !.y = y]
              dTo(x, y) == [ok |-> TRUE, x |-> x, y |-> y]
              \* if (!isCurveBlock) lastCmdWasCurve = false, and the next match
              break(c) ==
                explodeFrom(d, k + 1, 0, [c EXCEPT !.curve = c.block, !.block = FALSE], ctm)
              lineTo(x, y, n) ==
                <<LineSeg(here, ptCtm(ctm, x, y))>> \o explodeFrom(d, k, i + n, goto(x, y), ctm)
              x1 == IF cur.curve THEN reflect(cur.x, cur.lcx) ELSE cur.x
              y1 == IF cur.curve THEN reflect(cur.y, cur.lcy) ELSE cur.y
              curveTo(type, cx1, cy1, cx2, cy2, x, y, lx, ly, n) ==
                <<CurveSeg(type, here, ptCtm(ctm, x, y), cx1, cy1, cx2, cy2, dTo(x, y))>>
                  \o explodeFrom(d, k, i + n,
                                 [cur EXCEPT !.x = x, !.y = y, !.lcx = lx, !.lcy = ly,
                                             !.curve = TRUE, !.block = TRUE], ctm)
          IN IF i = 0
               THEN CASE lowerCmd = "m" ->
                           IF Len(args) >= 2
                             THEN explodeFrom(d, k, 3,
                                              [cur EXCEPT !.x = ax(1), !.y = ay(2),
                                                          !.sx = ax(1), !.sy = ay(2)], ctm)
                             ELSE break(cur)
                      [] lowerCmd = "z" ->
                           (IF differ(cur.x, cur.sx) \/ differ(cur.y, cur.sy)
                              THEN <<LineSeg(here, ptCtm(ctm, cur.sx, cur.sy))>> ELSE <<>>)
                             \o break(goto(cur.sx, cur.sy))
                      [] OTHER -> explodeFrom(d, k, 1, cur, ctm)
             ELSE IF i > Len(args) THEN break(cur)
             ELSE CASE lowerCmd \in {"m", "l"} -> lineTo(ax(i), ay(i + 1), 2)
                    [] lowerCmd = "h" -> lineTo(ax(i), cur.y, 1)
                    [] lowerCmd = "v" -> lineTo(cur.x, ay(i), 1)
                    [] lowerCmd = "c" ->
                         curveTo("cubic", ax(i), ay(i + 1), ax(i + 2), ay(i + 3),
                                 ax(i + 4), ay(i + 5), ax(i + 2), ay(i + 3), 6)
                    [] lowerCmd = "s" ->
                         curveTo("cubic", x1, y1, ax(i), ay(i + 1), ax(i + 2), ay(i + 3),
                                 ax(i), ay(i + 1), 4)
                    [] lowerCmd = "q" ->
                         curveTo("quadratic", ax(i), ay(i + 1), 0, 0, ax(i + 2), ay(i + 3),
                                 ax(i), ay(i + 1), 4)
                    [] lowerCmd = "t" ->
                         curveTo("quadratic", x1, y1, 0, 0, ax(i), ay(i + 1), x1, y1, 2)
                    [] lowerCmd = "a" ->
                         <<ArcSeg(here, ptCtm(ctm, ax(i + 5), ay(i + 6)), arg(i), arg(i + 1),
                                  arg(i + 2), arg(i + 3), arg(i + 4),
                                  dTo(ax(i + 5), ay(i + 6)))>>
                           \o explodeFrom(d, k, i + 7, goto(ax(i + 5), ay(i + 6)), ctm)
                    [] OTHER -> break(cur)
    IN CHOOSE r \in {command(v) : v \in {current}} : TRUE
explodePathToSegments(d, ctm) == explodeFrom(commandPattern(d), 1, 0, ExplodeStart, ctm)

\* sampleElement of part_000: one element to ggcode-style segments
sampleElement000(el) ==
  CASE el.tag = "path" -> explodePathToSegments(el.d, el.ctm)
    [] el.tag = "circle" ->
         IF el.r <= 0 THEN <<>>
         ELSE LET pStart == applyCtm(el.ctm, pt(el.cx - el.r, el.cy))
                  pMid == applyCtm(el.ctm, pt(el.cx + el.r, el.cy))
              IN << ArcSeg(pStart, pMid, el.r, el.r, 0, 1, 1,
                           [ok |-> TRUE, x |-> el.cx + el.r, y |-> el.cy]),
                    ArcSeg(pMid, pStart, el.r, el.r, 0, 1, 1,
                           [ok |-> TRUE, x |-> el.cx - el.r, y |-> el.cy]) >>
    [] el.tag = "line" ->
         <<LineSeg(applyCtm(el.ctm, pt(el.x1, el.y1)), applyCtm(el.ctm, pt(el.x2, el.y2)))>>
    [] el.tag = "rect" ->
         IF el.width <= 0 \/ el.height <= 0 THEN <<>>
         ELSE LET p0 == applyCtm(el.ctm, pt(el.x, el.y))
                  p1 == applyCtm(el.ctm, pt(el.x + el.width, el.y))
                  p2 == applyCtm(el.ctm, pt(el.x + el.width, el.y + el.height))
                  p3 == applyCtm(el.ctm, pt(el.x, el.y + el.height))
              IN <<LineSeg(p0, p1), LineSeg(p1, p2), LineSeg(p2, p3), LineSeg(p3, p0)>>
    [] OTHER -> <<>>

\* ------------------------------------------------ part_000: G-code emitter
\* Math.sqrt(n / d) as a fraction a / b (n >= 0, d > 0): exact when n / d is a
\* ratio of squares, as it is for the arcs of the model's drawings.
SqrtRatio(n, d) ==
  LET g == GCD(n, d) IN [a |-> Sqrt(n \div g), b |-> Sqrt(d \div g)]

\* findCenterArc on bed coordinates; the result is twice the center (the center is
\* a midpoint plus an offset, so it may fall on a quarter micrometre).
findCenterArc(x1, y1, x2, y2, r, large, sweep) ==
  LET dx == x1 - x2
      dy == y1 - y2
      tiny == \/ r = 0
              \/ dx = 0 /\ dy = 0
              \/ Abs(dx) < 8 /\ Abs(dy) < 8 /\ r < 8 /\ r * r * (dx * dx + dy * dy) < 64
      g == GCD(GCD(Abs(dx), Abs(dy)), 2 * r)
      s == (dx \div g) * (dx \div g) + (dy \div g) * (dy \div g)
      val == Max(0, ((2 * r) \div g) * ((2 * r) \div g) - s)
      root == SqrtRatio(val, s)
      coef == IF large = sweep THEN -root.a ELSE root.a
  IN IF tiny THEN [x |-> x1 + x2, y |-> y1 + y2]
     ELSE [x |-> (coef * dy) \div root.b + x1 + x2,
           y |-> (-(coef * dx)) \div root.b + y1 + y2]

\* tx of generateGCode: a path point on the bed
tx(item, p) ==
  [x |-> (2 * p.x * item.settings.width) \div item.originalSize.w + 2 * item.settings.posX,
   y |-> (2 * p.y * item.settings.height) \div item.originalSize.h + 2 * item.settings.posY]

\* The forEach over item.paths in generateGCode of part_000: the flat segment of one
\* ggcode-style segment (its p1, p2 placed, its radii scaled), tagged with its item.
flatSegment(its, n, seg) ==
  LET item == its[n]
  IN [type |-> seg.type, p1 |-> tx(item, seg.p1), p2 |-> tx(item, seg.p2),
      params |-> IF seg.params.has
                   THEN [seg.params EXCEPT
                           !.rx = (2 * @ * item.settings.width) \div item.originalSize.w,
                           !.ry = (2 * @ * item.settings.height) \div item.originalSize.h]
                   ELSE seg.params,
      curve |-> IF seg.type = "curve"
                  THEN LET c1 == tx(item, pt(seg.curve.x1, seg.curve.y1))
                           c2 == tx(item, pt(seg.curve.x2, seg.curve.y2))
                       IN [seg.curve EXCEPT !.x1 = c1.x, !.y1 = c1.y,
                                            !.x2 = IF seg.curve.type = "cubic" THEN c2.x ELSE @,
                                            !.y2 = IF seg.curve.type = "cubic" THEN c2.y ELSE @]
                  ELSE seg.curve,
      d |-> seg.d, item |-> n]

RECURSIVE flatSegmentsFrom(_, _)
flatSegmentsFrom(its, n) ==
  IF n > Len(its) THEN <<>>
  ELSE LET flat(paths) == [k \in 1..Len(paths) |-> flatSegment(its, n, paths[k])]
                             \o flatSegmentsFrom(its, n + 1)
       IN CHOOSE r \in {flat(v) : v \in {sampleElement000(its[n].el)}} : TRUE

\* ggcodeSegment travelling to a new stroke with the tool left down
ggcodeSegment_noLift(st, seg, workFeed, travelFeed, safeZ, cutZ) ==
  LET startX == seg.p1.x
      startY == seg.p1.y
      endX == seg.p2.x
      endY == seg.p2.y
      isDiscontinuous ==
        st.last = <<>> \/ Discontinuous(startX - st.last[1], startY - st.last[2])
      approach ==
        IF isDiscontinuous
          THEN <<MoveXY("G0", fmt(startX), fmt(startY), travelFeed),
                 MoveZ("G1", cutZ, workFeed)>>
        ELSE IF ~st.isCutting THEN <<MoveZ("G1", cutZ, workFeed)>>
        ELSE <<>>
      rx == seg.params.rx
      ry == seg.params.ry
      center == findCenterArc(startX, startY, endX, endY, rx, seg.params.large,
                              seg.params.sweep)
      cut ==
        IF seg.type = "line" THEN <<MoveXY("G1", fmt(endX), fmt(endY), workFeed)>>
        ELSE IF seg.type = "arc" THEN
          IF ~seg.params.has \/ Abs(rx - ry) > 2
            THEN IF seg.d.ok
                   THEN <<SampledXY(fmt(2000 * seg.d.x), fmt(2000 * seg.d.y), workFeed)>>
                   ELSE <<MoveXY("G1", fmt(endX), fmt(endY), workFeed)>>
            ELSE <<ArcXY(IF seg.params.sweep = 1 THEN "G2" ELSE "G3",
                         fmt(endX), fmt(endY),
                         toFixed(center.x - 2 * startX, 4),
                         toFixed(center.y - 2 * startY, 4), workFeed)>>
        ELSE <<>>
      n == Len(st.code)
  IN [code |-> st.code \o approach \o cut,
      last |-> IF cut = <<>> THEN st.last ELSE <<endX, endY>>,
      isCutting |-> (st.isCutting \/ approach # <<>>),
      marks |-> Append(st.marks,
                  [item |-> seg.item, p1 |-> seg.p1, p2 |-> seg.p2, first |-> n + 1,
                   cut |-> IF cut = <<>> THEN 0 ELSE n + Len(approach) + 1,
                   cutEnd |-> n + Len(approach) + Len(cut)])]

\* One iteration of segments.forEach in ggcodeGenerateGCode (isLaser false).
\* st = [code, last, isCutting, marks]; last is <<>> for lastX == null.
\* marks records, per segment, where its lines are in the program.
ggcodeSegment(st, seg, workFeed, travelFeed, safeZ, cutZ) ==
  LET startX == seg.p1.x
      startY == seg.p1.y
      endX == seg.p2.x
      endY == seg.p2.y
      isDiscontinuous ==
        st.last = <<>> \/ Discontinuous(startX - st.last[1], startY - st.last[2])
      approach ==
        IF isDiscontinuous
          THEN (IF st.isCutting THEN <<MoveZ("G0", safeZ, travelFeed)>> ELSE <<>>)
                 \o <<MoveXY("G0", fmt(startX), fmt(startY), travelFeed),
                      MoveZ("G1", cutZ, workFeed)>>
        ELSE IF ~st.isCutting THEN <<MoveZ("G1", cutZ, workFeed)>>
        ELSE <<>>
      rx == seg.params.rx
      ry == seg.params.ry
      center == findCenterArc(startX, startY, endX, endY, rx, seg.params.large,
                              seg.params.sweep)
      cut ==
        IF seg.type = "line" THEN <<MoveXY("G1", fmt(endX), fmt(endY), workFeed)>>
        ELSE IF seg.type = "arc" THEN
          IF ~seg.params.has \/ Abs(rx - ry) > 2
            THEN IF seg.d.ok
                   THEN <<SampledXY(fmt(2000 * seg.d.x), fmt(2000 * seg.d.y), workFeed)>>
                   ELSE <<MoveXY("G1", fmt(endX), fmt(endY), workFeed)>>
            ELSE <<ArcXY(IF seg.params.sweep = 1 THEN "G2" ELSE "G3",
                         fmt(endX), fmt(endY),
                         toFixed(center.x - 2 * startX, 4),
                         toFixed(center.y - 2 * startY, 4), workFeed)>>
        ELSE <<>>
      n == Len(st.code)
  IN [code |-> st.code \o approach \o cut,
      last |-> IF cut = <<>> THEN st.last ELSE <<endX, endY>>,
      isCutting |-> (st.isCutting \/ approach # <<>>),
      marks |-> Append(st.marks,
                  [item |-> seg.item, p1 |-> seg.p1, p2 |-> seg.p2, first |-> n + 1,
                   cut |-> IF cut = <<>> THEN 0 ELSE n + Len(approach) + 1,
                   cutEnd |-> n + Len(approach) + Len(cut)])]

RECURSIVE ggcodeFrom(_, _, _, _, _, _, _)
ggcodeFrom(segments, k, state, workFeed, travelFeed, safeZ, cutZ) ==
  IF k > Len(segments) THEN state
  ELSE LET forEach(st) ==
             ggcodeFrom(segments, k + 1,
                        ggcodeSegment(st, segments[k], workFeed, travelFeed, safeZ, cutZ),
                        workFeed, travelFeed, safeZ, cutZ)
       IN CHOOSE r \in {forEach(v) : v \in {state}} : TRUE

\* ggcodeGenerateGCode(segments, 1, workFeed, travelFeed, safeZ, cutZ, false):
\* the program and the marks of its segments
ggcodeGenerateGCode_noFinalLift(segments, workFeed, travelFeed, safeZ, cutZ) ==
  LET head == <<Word(";"), Word("G90"), Word("G21"), Word("G17"),
                MoveZ("G0", safeZ, travelFeed)>>
      foot(st) ==
        [code |-> st.code \o <<MoveXY("G0", 0, 0, travelFeed), Word("M2")>>,
         marks |-> st.marks]
  IN CHOOSE r \in {foot(v) : v \in {ggcodeFrom(segments, 1,
                                               [code |-> head, last |-> <<>>,
                                                isCutting |-> FALSE, marks |-> <<>>],
                                               workFeed, travelFeed, safeZ, cutZ)}} : TRUE

ggcodeGenerateGCode(segments, workFeed, travelFeed, safeZ, cutZ) ==
  LET head == <<Word(";"), Word("G90"), Word("G21"), Word("G17"),
                MoveZ("G0", safeZ, travelFeed)>>
      foot(st) ==
        [code |-> st.code \o <<MoveZ("G0", safeZ, travelFeed),
                               MoveXY("G0", 0, 0, travelFeed), Word("M2")>>,
         marks |-> st.marks]
  IN CHOOSE r \in {foot(v) : v \in {ggcodeFrom(segments, 1,
                                               [code |-> head, last |-> <<>>,
                                                isCutting |-> FALSE, marks |-> <<>>],
                                               workFeed, travelFeed, safeZ, cutZ)}} : TRUE

\* generateGCode of part_000 on the items (at least one)
gcode000(its) ==
  LET first == its[1].settings
      ggcode(flatSegments) ==
        ggcodeGenerateGCode(flatSegments, first.workSpeed, first.travelSpeed,
                            first.zUp, first.zDown)
  IN CHOOSE r \in {ggcode(v) : v \in {flatSegmentsFrom(its, 1)}} : TRUE

\* ------------------------------------------- part_001: shape normalizer
\* Math.cos / Math.sin of phiDeg degrees, for the quarter turns
cosDeg(phiDeg) == CASE phiDeg % 360 = 0 -> 1 [] phiDeg % 360 = 180 -> -1 [] OTHER -> 0
sinDeg(phiDeg) == CASE phiDeg % 360 = 90 -> 1 [] phiDeg % 360 = 270 -> -1 [] OTHER -> 0

\* svgArcToCenter for distinct end points. The result carries twice the center
\* (c2), exact arithmetic: radii that are too small (lambda > 1) are scaled up to
\* the half chord, which makes sq zero.
svgArcToCenter(x1, y1, x2, y2, rxIn, ryIn, phiDeg, fA, fS) ==
  LET rx == Abs(rxIn)
      ry == Abs(ryIn)
      cosPhi == cosDeg(phiDeg)
      sinPhi == sinDeg(phiDeg)
      dx == x1 - x2
      dy == y1 - y2
      x1p == cosPhi * dx + sinPhi * dy
      y1p == -sinPhi * dx + cosPhi * dy
      den == rx * rx * y1p * y1p + ry * ry * x1p * x1p
      num == Max(0, 4 * rx * rx * ry * ry - den)
      root == SqrtRatio(num, den)
      coef == IF fA # fS THEN root.a ELSE -root.a
      cxp == (coef * rx * y1p) \div (root.b * ry)
      cyp == (-(coef * ry * x1p)) \div (root.b * rx)
  IN IF rx = 0 \/ ry = 0
       THEN [ok |-> FALSE, c2 |-> pt(0, 0), clockwise |-> FALSE, rx |-> rx, ry |-> ry]
       ELSE [ok |-> TRUE,
             c2 |-> pt(cosPhi * cxp - sinPhi * cyp + x1 + x2,
                       sinPhi * cxp + cosPhi * cyp + y1 + y2),
             clockwise |-> (fS = 0), rx |-> rx, ry |-> ry]

\* applyCtm on twice a point
applyCtm2(ctm, p) == [x |-> p.x * ctm.a + p.y * ctm.c + 2 * ctm.e,
                      y |-> p.x * ctm.b + p.y * ctm.d + 2 * ctm.f]

\* { type: 'line', points }
Polyline(points) == [type |-> "line", points |-> points]
\* { type: 'arc', start, end, center, clockwise }, the center kept doubled
Arc(start, end, center2, clockwise) ==
  [type |-> "arc", start |-> start, end |-> end, center2 |-> center2,
   clockwise |-> clockwise]
\* { type: 'line', points }, the points being those of a curve: an elliptical arc
\* sampled with getPointAtLength (sampleCurve), a Bezier subdivided by
\* adaptiveCubic or adaptiveQuad. The model keeps the two ends.
Sampled(start, end) == [type |-> "sampled", start |-> start, end |-> end]
\* The same for a Bezier, with the first control point P1 that adaptiveCubic or
\* adaptiveQuad was called with (in path coordinates)
Flattened(start, end, P1) ==
  [type |-> "sampled", start |-> start, end |-> end, P1 |-> P1]
\* lastCp2 and lastCp: null, or { x, y }
NoCp == [ok |-> FALSE, x |-> 0, y |-> 0]
Cp(x, y) == [ok |-> TRUE, x |-> x, y |-> y]

\* parsePathToSegments from command k on (commands as tokenizePathD returns them);
\* cur = current point, subpath start, lastCp2 and lastCp.
RECURSIVE parseFrom(_, _, _, _)
parseFrom(commands, k, current, ctm) ==
  IF k > Len(commands) THEN <<>>
  ELSE
    LET command(cur) ==
          LET cmd == commands[k].cmd
              args == commands[k].args
              isRel == isRelative(cmd)
              here == applyCtm(ctm, pt(cur.x, cur.y))
              ax(n) == IF isRel THEN cur.x + args[n] ELSE args[n]
              ay(n) == IF isRel THEN cur.y + args[n] ELSE args[n]
              goto(x, y) ==
                [cur EXCEPT !.x = x, !.y = y, !.lastCp2 = NoCp, !.lastCp = NoCp]
              arc == svgArcToCenter(cur.x, cur.y, ax(6), ay(7), args[1], args[2], args[3],
                                    args[4], args[5])
              rMax == IF Max(arc.rx, arc.ry) = 0 THEN 1 ELSE Max(arc.rx, arc.ry)
              isCircular == arc.ok /\ 100 * Abs(arc.rx - arc.ry) < rMax
              \* a Bezier to (x, y), subdivided into a polyline (a run of four C
              \* that closes on itself is fitted with a circle instead: the paths
              \* of the model have no such run)
              curve(P1, x, y, cp2, cp) ==
                <<Flattened(here, applyCtm(ctm, pt(x, y)), P1)>>
                  \o parseFrom(commands, k + 1,
                                [cur EXCEPT !.x = x, !.y = y, !.lastCp2 = cp2, !.lastCp = cp],
                                ctm)
              \* the first control point of S and of T
              cp1 == IF cur.lastCp2.ok
                       THEN pt(2 * cur.x - cur.lastCp2.x, 2 * cur.y - cur.lastCp2.y)
                       ELSE pt(cur.x, cur.y)
              cpT == IF cur.lastCp.ok
                       THEN pt(2 * cur.x - cur.lastCp.x, 2 * cur.y - cur.lastCp.y)
                       ELSE pt(cur.x, cur.y)
          IN CASE cmd \in {"M", "m"} ->
                    parseFrom(commands, k + 1,
                              [x |-> ax(1), y |-> ay(2), sx |-> ax(1), sy |-> ay(2),
                               lastCp2 |-> NoCp, lastCp |-> NoCp], ctm)
               [] cmd \in {"L", "l"} ->
                    <<Polyline(<<here, applyCtm(ctm, pt(ax(1), ay(2)))>>)>>
                      \o parseFrom(commands, k + 1, goto(ax(1), ay(2)), ctm)
               [] cmd \in {"H", "h"} ->
                    <<Polyline(<<here, applyCtm(ctm, pt(ax(1), cur.y))>>)>>
                      \o parseFrom(commands, k + 1, goto(ax(1), cur.y), ctm)
               [] cmd \in {"V", "v"} ->
                    <<Polyline(<<here, applyCtm(ctm, pt(cur.x, ay(1)))>>)>>
                      \o parseFrom(commands, k + 1, goto(cur.x, ay(1)), ctm)
               [] cmd \in {"A", "a"} ->
                    (IF isCircular
                       THEN <<Arc(here, applyCtm(ctm, pt(ax(6), ay(7))),
                                  applyCtm2(ctm, arc.c2), arc.clockwise)>>
                     ELSE IF arc.ok
                       THEN <<Sampled(here, applyCtm(ctm, pt(ax(6), ay(7))))>>
                     ELSE <<>>)
                      \o parseFrom(commands, k + 1, goto(ax(6), ay(7)), ctm)
               [] cmd \in {"Z", "z"} ->
                    (IF cur.x # cur.sx \/ cur.y # cur.sy
                       THEN <<Polyline(<<here, applyCtm(ctm, pt(cur.sx, cur.sy))>>)>>
                       ELSE <<>>)
                      \o parseFrom(commands, k + 1, goto(cur.sx, cur.sy), ctm)
               [] cmd \in {"C", "c"} ->
                    curve(pt(ax(1), ay(2)), ax(5), ay(6), Cp(ax(3), ay(4)), NoCp)
               [] cmd \in {"S", "s"} -> curve(cp1, ax(3), ay(4), Cp(ax(1), ay(2)), NoCp)
               [] cmd \in {"Q", "q"} ->
                    curve(pt(ax(1), ay(2)), ax(3), ay(4), NoCp, Cp(ax(1), ay(2)))
               [] cmd \in {"T", "t"} -> curve(cpT, ax(1), ay(2), NoCp, Cp(cpT.x, cpT.y))
               [] OTHER -> parseFrom(commands, k + 1, cur, ctm)
    IN CHOOSE r \in {command(v) : v \in {current}} : TRUE
parsePathToSegments(d, ctm) ==
  parseFrom(tokenizePathD(d), 1,
            [x |-> 0, y |-> 0, sx |-> 0, sy |-> 0, lastCp2 |-> NoCp, lastCp |-> NoCp], ctm)

\* sampleElement of part_001: one element to legacy segments
sampleElement001(el) ==
  CASE el.tag = "path" -> parsePathToSegments(el.d, el.ctm)
    [] el.tag = "circle" ->
         IF el.r <= 0 THEN <<>>
         ELSE LET start1 == applyCtm(el.ctm, pt(el.cx + el.r, el.cy))
                  end1 == applyCtm(el.ctm, pt(el.cx - el.r, el.cy))
                  center == applyCtm2(el.ctm, pt(2 * el.cx, 2 * el.cy))
              IN <<Arc(start1, end1, center, FALSE), Arc(end1, start1, center, TRUE)>>
    [] el.tag = "line" ->
         <<Polyline(<<applyCtm(el.ctm, pt(el.x1, el.y1)),
                      applyCtm(el.ctm, pt(el.x2, el.y2))>>)>>
    [] el.tag = "rect" ->
         IF el.width <= 0 \/ el.height <= 0 THEN <<>>
         ELSE LET p0 == applyCtm(el.ctm, pt(el.x, el.y))
                  p1 == applyCtm(el.ctm, pt(el.x + el.width, el.y))
                  p2 == applyCtm(el.ctm, pt(el.x + el.width, el.y + el.height))
                  p3 == applyCtm(el.ctm, pt(el.x, el.y + el.height))
              IN <<Polyline(<<p0, p1>>), Polyline(<<p1, p2>>), Polyline(<<p2, p3>>),
                   Polyline(<<p3, p0>>)>>
    [] OTHER -> <<>>

\* ------------------------------------------------ part_001: G-code emitter
\* The G1 moves of a polyline segment from point i on, duplicate points skipped
RECURSIVE cutMoves(_, _, _, _)
cutMoves(item, pts, i, last) ==
  IF i > Len(pts) THEN <<>>
  ELSE LET x == roundGcode(tx(item, pts[i]).x)
           y == roundGcode(tx(item, pts[i]).y)
       IN IF x = last[1] /\ y = last[2] THEN cutMoves(item, pts, i + 1, last)
          ELSE <<MoveXY("G1", x, y, item.settings.workSpeed)>>
                 \o cutMoves(item, pts, i + 1, <<x, y>>)

\* The lines pushed for one path segment of an item, in generateGCode of part_001
segmentLines(item, seg) ==
  LET s == item.settings
      first == IF seg.type = "line" THEN seg.points[1] ELSE seg.start
      startX == roundGcode(tx(item, first).x)
      startY == roundGcode(tx(item, first).y)
      down == <<MoveXY("G0", startX, startY, s.travelSpeed), MoveZ("G1", s.zDown, s.workSpeed)>>
      up == <<MoveZ("G0", s.zUp, s.travelSpeed)>>
  IN IF seg.type = "arc" THEN
       LET centerX == (seg.center2.x * s.width) \div item.originalSize.w + 2 * s.posX
           centerY == (seg.center2.y * s.height) \div item.originalSize.h + 2 * s.posY
       IN down \o <<ArcXY(IF seg.clockwise THEN "G2" ELSE "G3",
                          roundGcode(tx(item, seg.end).x), roundGcode(tx(item, seg.end).y),
                          roundGcode(centerX - tx(item, seg.start).x),
                          roundGcode(centerY - tx(item, seg.start).y), s.workSpeed)>> \o up
     ELSE IF seg.type = "sampled" THEN
       down \o <<SampledXY(roundGcode(tx(item, seg.end).x), roundGcode(tx(item, seg.end).y),
                           s.workSpeed)>> \o up
     ELSE IF Len(seg.points) < 2 THEN <<>>
     ELSE down \o cutMoves(item, seg.points, 2, <<startX, startY>>) \o up

\* st = [code, marks] after the segments k.. of item n
RECURSIVE itemFrom(_, _, _, _, _)
itemFrom(its, n, paths, k, state) ==
  IF k > Len(paths) THEN state
  ELSE
    LET segment(st) ==
          LET seg == paths[k]
              lines == segmentLines(its[n], seg)
              base == Len(st.code)
              cuts == Len(lines) - 3
          IN itemFrom(its, n, paths, k + 1,
               [code |-> st.code \o lines,
                marks |-> IF lines = <<>> THEN st.marks
                          ELSE Append(st.marks,
                                 [item |-> n,
                                  p1 |-> tx(its[n], IF seg.type = "line" THEN seg.points[1]
                                                                         ELSE seg.start),
                                  p2 |-> tx(its[n], IF seg.type = "line"
                                                        THEN seg.points[Len(seg.points)]
                                                        ELSE seg.end),
                                  first |-> base + 1,
                                  cut |-> IF cuts > 0 THEN base + 3 ELSE 0,
                                  cutEnd |-> base + 2 + cuts])])
    IN CHOOSE r \in {segment(v) : v \in {state}} : TRUE

RECURSIVE itemsFrom(_, _, _)
itemsFrom(its, n, st) ==
  IF n > Len(its) THEN st
  ELSE
    LET item(paths) ==
          itemsFrom(its, n + 1,
            IF paths = <<>> THEN st
            ELSE itemFrom(its, n, paths, 1, [st EXCEPT !.code = Append(@, Word(";"))]))
    IN CHOOSE r \in {item(v) : v \in {sampleElement001(its[n].el)}} : TRUE

\* generateGCode of part_001 on the items (at least one): the program and the marks
\* of its segments
gcode001(its) ==
  LET first == its[1].settings
      head == <<Word(";"), Word("G90"), Word("G21"),
                MoveZ("G0", first.zUp, first.travelSpeed),
                MoveXY("G0", 0, 0, first.travelSpeed)>>
      foot(st) ==
        [code |-> st.code \o <<MoveXY("G0", 0, 0, first.travelSpeed), Word("M2")>>,
         marks |-> st.marks]
  IN CHOOSE r \in {foot(v) : v \in {itemsFrom(its, 1, [code |-> head, marks |-> <<>>])}} :
       TRUE

\* ------------------------------------------------------ placed items
\* The drawings: one element each, with the viewBox size parseSVG reads.
ViewBox(w, h) == [w |-> w, h |-> h]
\* <rect width="10" height="10"/> in a 10 x 10 viewBox
rectSvg ==
  [el |-> [tag |-> "rect", x |-> 0, y |-> 0, width |-> 10, height |-> 10, ctm |-> Identity],
   os |-> ViewBox(10, 10)]
\* <circle cx="50" cy="50" r="10"/>
circleSvg ==
  [el |-> [tag |-> "circle", cx |-> 50, cy |-> 50, r |-> 10, ctm |-> Identity],
   os |-> ViewBox(100, 100)]
\* <line x1="0" y1="0" x2="100" y2="50"/>
lineSvg ==
  [el |-> [tag |-> "line", x1 |-> 0, y1 |-> 0, x2 |-> 100, y2 |-> 50, ctm |-> Identity],
   os |-> ViewBox(100, 100)]
\* <path d="M10 0 A10 10 0 0 1 0 10"/>: a quarter circle about (0,0), sweep-flag 1
arcSvg ==
  [el |-> [tag |-> "path", ctm |-> Identity,
           d |-> pathData(<<PathCmd("M", <<10, 0>>), PathCmd("A", <<10, 10, 0, 0, 1, 0, 10>>)>>)],
   os |-> ViewBox(100, 100)]
\* <path d="M0 10 a10 10 0 0 0 10 -10 l0 20"/>: the same quarter the other way
\* round (sweep-flag 0), then an edge that starts where the arc ends
arcBackSvg ==
  [el |-> [tag |-> "path", ctm |-> Identity,
           d |-> pathData(<<PathCmd("M", <<0, 10>>), PathCmd("a", <<10, 10, 0, 0, 0, 10, -10>>),
                   PathCmd("l", <<0, 20>>)>>)],
   os |-> ViewBox(100, 100)]
\* the quarter circle of arcSvg under <g transform="scale(2,1)">
arcScaledSvg ==
  [el |-> [arcSvg.el EXCEPT !.ctm = [Identity EXCEPT !.a = 2]], os |-> ViewBox(100, 100)]
\* <path d="M0 0 H500 M503 0 V500 M520 500 L1000 500 Z"/> in a 1000 x 1000 viewBox:
\* subpaths 3 and 17 user units apart
openSvg ==
  [el |-> [tag |-> "path", ctm |-> Identity,
           d |-> pathData(<<PathCmd("M", <<0, 0>>), PathCmd("H", <<500>>), PathCmd("M", <<503, 0>>),
                   PathCmd("V", <<500>>), PathCmd("M", <<520, 500>>),
                   PathCmd("L", <<1000, 500>>), PathCmd("Z", <<>>)>>)],
   os |-> ViewBox(1000, 1000)]

\* An item of the items state: { paths, originalSize, settings }, the paths being
\* those sampleElement makes of el.
Item(svg, width, height, posX, posY) ==
  [el |-> svg.el, originalSize |-> svg.os,
   settings |-> [DEFAULT_SETTINGS EXCEPT !.width = width, !.height = height,
                                         !.posX = posX, !.posY = posY]]

MaxItems == 2       \* items on the bed

Positions == {<<0, 0>>, <<120000, 22000>>}
Items ==
  {Item(svg, size[1], size[2], pos[1], pos[2]) :
     svg \in {rectSvg, circleSvg, lineSvg, arcSvg, arcBackSvg, arcScaledSvg},
     size \in {<<100000, 100000>>, <<200000, 100000>>}, pos \in Positions}
  \cup {Item(openSvg, 10000, 10000, pos[1], pos[2]) : pos \in Positions}
ItemLists == UNION {[1..n -> Items] : n \in 1..MaxItems}

NoPlot == [done |-> FALSE, code |-> <<>>, marks |-> <<>>]

\* Nothing selected, no mouse button down (part_000 and Plotter.jsx as mounted)
\* DEFAULT_SETTINGS of the VectorPlotter page of Plotter.jsx
PLOTTER_SETTINGS == [DEFAULT_SETTINGS EXCEPT !.posX = 5000, !.posY = 5000]

\* The VectorPlotter page of Plotter.jsx as mounted
PlotterMounted ==
  [dragMode |-> "NONE", settings |-> PLOTTER_SETTINGS, dragged |-> FALSE,
   originalSize |-> [w |-> 100, h |-> 100]]

NoDrag ==
  /\ activeId = 0
  /\ dragMode = "NONE"
  /\ dragItemIdRef = 0
  /\ dragged = 0
  /\ plotter = PlotterMounted

NotRun == [done |-> FALSE, out |-> <<>>]
\* No path element is being read
\* No curve is being flattened, no <use> expanded, no file read
NoBezier == [status |-> "idle", kind |-> "", curve |-> <<>>, stack |-> <<>>, out |-> <<>>]
NoUses ==
  [status |-> "idle", doc |-> <<>>, top |-> <<>>, stack |-> <<>>, clones |-> 0,
   deepest |-> 0]
NoUpload ==
  [pendingUploadsRef |-> 0, isUploading |-> FALSE, reading |-> 0, overlapped |-> FALSE]
NoFile ==
  /\ bezier = NoBezier
  /\ uses = NoUses
  /\ upload = NoUpload

NoPathElement ==
  /\ pathIn = [family |-> "", c |-> "", k |-> 0, cut |-> 0, d |-> <<>>, ctm |-> Identity]
  /\ tokenized = NotRun
  /\ segments000 = NotRun
  /\ segments001 = NotRun

NoPath == NoPathElement /\ NoFile

\* The sequencer page of Part I, the plotter pages before any file is loaded
Init ==
  /\ InitSeq
  /\ items = <<>>
  /\ plot000 = NoPlot
  /\ plot001 = NoPlot
  /\ NoDrag
  /\ NoPath

\* The plotter pages with the items placed, the sequencer page left unconnected
InitEmit ==
  /\ InitSeq
  /\ connectionStatus = "disconnected"
  /\ items \in ItemLists
  /\ plot000 = NoPlot
  /\ plot001 = NoPlot
  /\ NoDrag
  /\ NoPath

\* "Generate G-code" of part_000
generateGCode000 ==
  /\ Len(items) # 0
  /\ \E program \in {gcode000(items)} :
       plot000' = [done |-> TRUE, code |-> program.code, marks |-> program.marks]
  /\ UNCHANGED <<items, plot001>>
  /\ UNCHANGED <<seqVars, layoutVars, pathVars>>

\* "Generate G-code" of part_001
generateGCode001 ==
  /\ Len(items) # 0
  /\ \E program \in {gcode001(items)} :
       plot001' = [done |-> TRUE, code |-> program.code, marks |-> program.marks]
  /\ UNCHANGED <<items, plot000>>
  /\ UNCHANGED <<seqVars, layoutVars, pathVars>>

NextEmit ==
  \/ generateGCode000
  \/ generateGCode001


\* ------------------------------------------------- placing the items
\* round and round1 (one decimal of a millimetre) on micrometres
round(num) == Round(num, 100) * 100

MaxTravel == 3      \* Plotter.jsx: how far a drawing is dragged, in steps of 100 mm

\* What a mouse move amounts to in millimetres (dx / view.scale), in micrometres
Deltas == {<<-600000, -600000>>, <<200000, 200000>>, <<600000, 0>>}
\* What is typed into the number inputs of the item panel
Typed ==
  [width |-> {100000, 600000}, height |-> {100000, 400000}, posX |-> {300000},
   keepProportions |-> BOOLEAN]

\* addItemsFromParsed(name, paths, origW, origH) for a parsed drawing
addItemsFromParsed(svg) ==
  /\ Len(items) < MaxItems
  /\ sampleElement000(svg.el) # <<>>
  /\ LET initialWidth == 100000
         initialHeight == IF svg.os.w > 0 THEN round((initialWidth * svg.os.h) \div svg.os.w)
                          ELSE initialWidth
         offset == Len(items) * 22000
         newItem == [el |-> svg.el, originalSize |-> svg.os,
                     settings |-> [DEFAULT_SETTINGS EXCEPT
                                     !.width = initialWidth, !.height = initialHeight,
                                     !.posX = Max(-250000, -offset),
                                     !.posY = Min(300000 - initialHeight, offset)]]
     IN /\ items' = Append(items, newItem)
        /\ activeId' = Len(items) + 1
  /\ dragged' = 0
  /\ UNCHANGED <<plot000, plot001, dragMode, dragItemIdRef, plotter>>
  /\ UNCHANGED <<seqVars, pathVars>>

\* updateSetting with the aspect ratio upside down
updateSetting_upsideDown(key, value) ==
  /\ activeId # 0
  /\ LET it == items[activeId]
         numVal == IF key = "keepProportions" THEN value ELSE round(value)
         next == [it.settings EXCEPT ![key] = numVal]
         locked == it.settings.keepProportions /\ it.originalSize.w > 0
     IN items' = [items EXCEPT ![activeId].settings =
                    IF locked /\ key = "width"
                      THEN [next EXCEPT !.height =
                              round((numVal * it.originalSize.w) \div it.originalSize.h)]
                    ELSE IF locked /\ key = "height"
                      THEN [next EXCEPT !.width =
                              round((numVal * it.originalSize.h) \div it.originalSize.w)]
                    ELSE next]
  /\ dragged' = 0
  /\ UNCHANGED <<plot000, plot001, activeId, dragMode, dragItemIdRef, plotter>>
  /\ UNCHANGED <<seqVars, pathVars>>

\* updateSetting(key, value) of part_000
updateSetting(key, value) ==
  /\ activeId # 0
  /\ LET it == items[activeId]
         numVal == IF key = "keepProportions" THEN value ELSE round(value)
         next == [it.settings EXCEPT ![key] = numVal]
         locked == it.settings.keepProportions /\ it.originalSize.w > 0
     IN items' = [items EXCEPT ![activeId].settings =
                    IF locked /\ key = "width"
                      THEN [next EXCEPT !.height =
                              round((numVal * it.originalSize.h) \div it.originalSize.w)]
                    ELSE IF locked /\ key = "height"
                      THEN [next EXCEPT !.width =
                              round((numVal * it.originalSize.w) \div it.originalSize.h)]
                    ELSE next]
  /\ dragged' = 0
  /\ UNCHANGED <<plot000, plot001, activeId, dragMode, dragItemIdRef, plotter>>
  /\ UNCHANGED <<seqVars, pathVars>>

\* handleMouseDown of part_000: on item id (left button), or on the background (id 0)
handleMouseDown(id) ==
  /\ IF id # 0
       THEN activeId' = id /\ dragItemIdRef' = id /\ dragMode' = "IMAGE"
       ELSE dragMode' = "VIEW" /\ UNCHANGED <<activeId, dragItemIdRef>>
  /\ dragged' = 0
  /\ UNCHANGED <<items, plot000, plot001, plotter>>
  /\ UNCHANGED <<seqVars, pathVars>>

\* handleMouseMove of part_000, the mouse having moved by (dxMm, dyMm) on the bed
handleMouseMove(dxMm, dyMm) ==
  /\ dragMode # "NONE"
  /\ IF dragMode = "IMAGE" /\ dragItemIdRef # 0
       THEN LET s == items[dragItemIdRef].settings
                minX == -250000
                maxX == 250000 - s.width
                minY == 0
                maxY == Max(0, 300000 - s.height)
            IN /\ items' = [items EXCEPT ![dragItemIdRef].settings =
                              [s EXCEPT !.posX = round(Max(minX, Min(maxX, s.posX + dxMm))),
                                        !.posY = round(Max(minY, Min(maxY, s.posY + dyMm)))]]
               /\ dragged' = dragItemIdRef
       ELSE UNCHANGED items /\ dragged' = 0
  /\ UNCHANGED <<plot000, plot001, activeId, dragMode, dragItemIdRef, plotter>>
  /\ UNCHANGED <<seqVars, pathVars>>

\* handleMouseUp of part_000 (mouse up, mouse leave)
handleMouseUp ==
  /\ dragMode' = "NONE"
  /\ dragged' = 0
  /\ UNCHANGED <<items, plot000, plot001, activeId, dragItemIdRef, plotter>>
  /\ UNCHANGED <<seqVars, pathVars>>

\* Plotter.jsx: handleImageMouseDown (left button on the drawing)
handleImageMouseDown ==
  /\ plotter' = [plotter EXCEPT !.dragMode = "IMAGE", !.dragged = FALSE]
  /\ UNCHANGED <<emitVars, activeId, dragMode, dragItemIdRef, dragged>>
  /\ UNCHANGED <<seqVars, pathVars>>

\* Plotter.jsx: handleMouseMove in IMAGE mode, the mouse having moved by (dx, dy)
\* over view.scale
round3(num) == Round(num, 1)      \* Math.round(num * 1000) / 1000 on micrometres

plotterMouseMove(dx, dy) ==
  /\ plotter.dragMode = "IMAGE"
  /\ plotter.settings.posX + dx <= MaxTravel * 100000
  /\ plotter.settings.posY + dy <= MaxTravel * 100000
  /\ plotter' = [plotter EXCEPT
                   !.settings.posX = Max(0, round3(plotter.settings.posX + dx)),
                   !.settings.posY = Max(0, round3(plotter.settings.posY + dy)),
                   !.dragged = TRUE]
  /\ UNCHANGED <<emitVars, activeId, dragMode, dragItemIdRef, dragged>>
  /\ UNCHANGED <<seqVars, pathVars>>

\* Plotter.jsx: handleMouseUp
plotterMouseUp ==
  /\ plotter' = [plotter EXCEPT !.dragMode = "NONE", !.dragged = FALSE]
  /\ UNCHANGED <<emitVars, activeId, dragMode, dragItemIdRef, dragged>>
  /\ UNCHANGED <<seqVars, pathVars>>

\* Plotter.jsx: parseSVG for a drawing, as far as the settings go
parseSVG(svg) ==
  /\ LET initialWidth == 100000
         initialHeight == IF svg.os.w > 0 THEN round((initialWidth * svg.os.h) \div svg.os.w)
                          ELSE initialWidth
     IN plotter' = [plotter EXCEPT !.originalSize = svg.os,
                                   !.settings.width = initialWidth,
                                   !.settings.height = initialHeight]
  /\ UNCHANGED <<emitVars, activeId, dragMode, dragItemIdRef, dragged>>
  /\ UNCHANGED <<seqVars, pathVars>>

\* Plotter.jsx: updateSetting(key, value) of the settings panel (290-301; the
\* later copy of the component, 800-811, rounds the locked dimension alike)
plotterUpdateSetting(key, value) ==
  /\ LET prev == plotter.settings
         originalSize == plotter.originalSize
         numVal == IF key = "keepProportions" THEN value ELSE round(value)
         next == [prev EXCEPT ![key] = numVal]
         locked == prev.keepProportions /\ originalSize.w > 0
     IN plotter' = [plotter EXCEPT !.settings =
                      IF locked /\ key = "width"
                        THEN [next EXCEPT !.height =
                                round((numVal * originalSize.h) \div originalSize.w)]
                      ELSE IF locked /\ key = "height"
                        THEN [next EXCEPT !.width =
                                round((numVal * originalSize.w) \div originalSize.h)]
                      ELSE next]
  /\ UNCHANGED <<emitVars, activeId, dragMode, dragItemIdRef, dragged>>
  /\ UNCHANGED <<seqVars, pathVars>>

\* <rect width="30" height="10"/> in a 30 x 10 viewBox
wideSvg ==
  [el |-> [tag |-> "rect", x |-> 0, y |-> 0, width |-> 30, height |-> 10, ctm |-> Identity],
   os |-> ViewBox(30, 10)]

\* The drawings dropped on the page
Dropped == {rectSvg}

\* The plotter pages as mounted, nothing loaded
InitLayout ==
  /\ InitSeq
  /\ connectionStatus = "disconnected"
  /\ items = <<>>
  /\ plot000 = NoPlot
  /\ plot001 = NoPlot
  /\ NoDrag
  /\ NoPath

\* One page is on screen at a time: the handlers of a page run while the other
\* page is as it was mounted
page000 == plotter = PlotterMounted
pagePlotter == items = <<>> /\ dragMode = "NONE"

NextLayout ==
  \/ page000 /\ \E svg \in Dropped : addItemsFromParsed(svg)
  \/ page000 /\ \E key \in DOMAIN Typed : \E value \in Typed[key] : updateSetting(key, value)
  \/ page000 /\ \E id \in 0..Len(items) : handleMouseDown(id)
  \/ page000 /\ \E d \in Deltas : handleMouseMove(d[1], d[2])
  \/ page000 /\ handleMouseUp
  \/ pagePlotter /\ handleImageMouseDown
  \/ pagePlotter /\ \E d \in Deltas : plotterMouseMove(d[1], d[2])
  \/ pagePlotter /\ plotterMouseUp

\* The size panel alone: drawings three times as wide as high are loaded, an item is
\* selected, and width, height and the lock are edited
Sizes == [width |-> {250000}, height |-> {100000, 400000}, keepProportions |-> BOOLEAN]

NextAspect ==
  \/ page000 /\ \E svg \in {wideSvg} : addItemsFromParsed(svg)
  \/ page000 /\ \E key \in DOMAIN Sizes : \E value \in Sizes[key] : updateSetting(key, value)
  \/ page000 /\ \E id \in 1..Len(items) : handleMouseDown(id)
  \/ page000 /\ handleMouseUp
  \/ pagePlotter /\ \E svg \in {wideSvg} : parseSVG(svg)
  \/ pagePlotter /\ \E key \in DOMAIN Sizes : \E value \in Sizes[key] :
                      plotterUpdateSetting(key, value)

\* ------------------------------------------------- reading a <path>
MaxGroups == 2      \* argument groups written after one command letter

Letters ==
  {"M", "m", "L", "l", "H", "h", "V", "v", "C", "c", "S", "s", "Q", "q", "T", "t",
   "A", "a"}

\* Argument group g of command c: numbers that tell the groups and the places apart
group(c, g) ==
  CASE argCount(c) = 7 -> <<60, 60, 0, 0, 1, 100 * g + 1, 100 * g + 2>>
    [] OTHER -> [n \in 1..argCount(c) |-> 100 * g + n]

RECURSIVE groups(_, _)
groups(c, k) == IF k = 0 THEN <<>> ELSE groups(c, k - 1) \o group(c, k)

\* closedEpsilon of parsePathToSegments, 0.001: the numbers of the paths below
\* are written in 1/10000 of a user unit
closedEpsilon == 10

\* "M10 20", the letter c with k argument groups less the last cut numbers, "l70 80"
Repeated(c, k, cut, ctm) ==
  [family |-> "repeat", c |-> c, k |-> k, cut |-> cut, ctm |-> ctm,
   d |-> pathData(<<PathCmd("M", <<10, 20>>),
                    PathCmd(c, SubSeq(groups(c, k), 1, k * argCount(c) - cut)),
                    PathCmd("l", <<70, 80>>)>>)]
\* "M0 0 L100 0 Lx y", the closing letter c, "l70 80"
Closing(c, x, y, ctm) ==
  [family |-> "close", c |-> c, k |-> x, cut |-> y, ctm |-> ctm,
   d |-> pathData(<<PathCmd("M", <<0, 0>>), PathCmd("L", <<100, 0>>),
                    PathCmd("L", <<x, y>>), PathCmd(c, <<>>), PathCmd("l", <<70, 80>>)>>)]
\* "M10 20 L30 40 A0 0 0 0 1 110 120 l70 80": an arc of radius zero
ZeroRadius(ctm) ==
  [family |-> "zero", c |-> "A", k |-> 1, cut |-> 0, ctm |-> ctm,
   d |-> pathData(<<PathCmd("M", <<10, 20>>), PathCmd("L", <<30, 40>>),
                    PathCmd("A", <<0, 0, 0, 0, 1, 110, 120>>),
                    PathCmd("l", <<70, 80>>)>>)]
\* "M10 20", the letter prev with one argument group, the smooth curve c with
\* the next group
Smooth(prev, c, ctm) ==
  [family |-> "smooth", c |-> c, k |-> 1, cut |-> 0, ctm |-> ctm, prev |-> prev,
   d |-> pathData(<<PathCmd("M", <<10, 20>>), PathCmd(prev, group(prev, 1)),
                    PathCmd(c, SubSeq(group(c, 2), 1, argCount(c)))>>)]

\* The CTMs of the elements: none, and scale(2,1) translate(3,0)
Ctms == {Identity, [Identity EXCEPT !.a = 2, !.e = 6]}
ClosePoints == {<<0, 0>>, <<5, 0>>, <<100, 100>>}

PathInputs ==
  {Repeated(c, k, cut, ctm) : c \in Letters, k \in 1..MaxGroups, cut \in 0..1, ctm \in Ctms}
    \cup {Closing(c, p[1], p[2], ctm) : c \in {"Z", "z"}, p \in ClosePoints, ctm \in Ctms}
    \cup {ZeroRadius(ctm) : ctm \in Ctms}
    \cup {Smooth(prev, c, ctm) : prev \in Letters \cup {"Z", "z"},
                                 c \in {"S", "s", "T", "t"}, ctm \in Ctms}

\* A <path> element of a loaded file, nothing read yet
InitPath ==
  /\ InitSeq
  /\ connectionStatus = "disconnected"
  /\ items = <<>>
  /\ plot000 = NoPlot
  /\ plot001 = NoPlot
  /\ NoDrag
  /\ pathIn \in PathInputs
  /\ tokenized = NotRun
  /\ segments000 = NotRun
  /\ segments001 = NotRun
  /\ NoFile

\* tokenizePathD(d), as parsePathToSegments calls it
tokenizePath ==
  /\ ~tokenized.done
  /\ \E out \in {tokenizePathD(pathIn.d)} : tokenized' = [done |-> TRUE, out |-> out]
  /\ UNCHANGED <<pathIn, segments000, segments001, fileVars>>
  /\ UNCHANGED <<seqVars, emitVars, layoutVars>>

\* sampleElement of part_000 on the path: explodePathToSegments(d, applyCtm)
explodePath ==
  /\ ~segments000.done
  /\ \E out \in {explodePathToSegments(pathIn.d, pathIn.ctm)} :
        segments000' = [done |-> TRUE, out |-> out]
  /\ UNCHANGED <<pathIn, tokenized, segments001, fileVars>>
  /\ UNCHANGED <<seqVars, emitVars, layoutVars>>

\* sampleElement of part_001 on the path: parsePathToSegments(d, applyCtm)
parsePath ==
  /\ ~segments001.done
  /\ \E out \in {parsePathToSegments(pathIn.d, pathIn.ctm)} :
        segments001' = [done |-> TRUE, out |-> out]
  /\ UNCHANGED <<pathIn, tokenized, segments000, fileVars>>
  /\ UNCHANGED <<seqVars, emitVars, layoutVars>>

NextPath ==
  \/ tokenizePath
  \/ explodePath
  \/ parsePath

\* ------------------------------------------------ flattening a Bezier
\* BEZIER_FLATNESS_TOLERANCE, 0.05: the coordinates of the curves below are
\* written in 1/320 of a path unit
BEZIER_FLATNESS_TOLERANCE == 16
MaxDepth == 6       \* nested calls the engine's call stack holds

\* { x: (P.x + Q.x) / 2, y: (P.y + Q.y) / 2 }
mid(P, Q) ==
  LET half(a, b) == IF a = NaN \/ b = NaN THEN NaN ELSE (a + b) \div 2
  IN pt(half(P.x, Q.x), half(P.y, Q.y))
isNaN(P) == P.x = NaN \/ P.y = NaN

\* pointToLineDist(P.x, P.y, P0.x, P0.y, P1.x, P1.y) <= tolerance, on the squares;
\* a NaN among the coordinates makes the distance NaN and the comparison false
withinTolerance(P, P0, P1, tolerance) ==
  IF isNaN(P) \/ isNaN(P0) \/ isNaN(P1) THEN FALSE
  ELSE LET dx == P1.x - P0.x
           dy == P1.y - P0.y
           len2 == dx * dx + dy * dy
           dot == (P.x - P0.x) * dx + (P.y - P0.y) * dy
           cross == (P.x - P0.x) * dy - (P.y - P0.y) * dx
           sq(a, b) == a * a + b * b
       IN IF len2 = 0 \/ dot <= 0
            THEN sq(P.x - P0.x, P.y - P0.y) <= tolerance * tolerance
          ELSE IF dot >= len2
            THEN sq(P.x - P1.x, P.y - P1.y) <= tolerance * tolerance
          ELSE cross * cross <= tolerance * tolerance * len2

\* The outermost call for a curve, out = []; a call of adaptiveCubic or
\* adaptiveQuad on the call stack is its control points P and how many calls
\* deep it is
Flatten(kind, P) ==
  [status |-> "running", kind |-> kind, curve |-> P,
   stack |-> <<[P |-> P, depth |-> 1]>>, out |-> <<>>]

\* What one call does to the record b: push the end point and return, or call
\* itself on the two halves; the engine throws a RangeError when its call
\* stack is full
returned(b, P) ==
  [b EXCEPT !.out = Append(@, P), !.stack = Tail(@),
            !.status = IF Len(b.stack) = 1 THEN "done" ELSE "running"]
recurse(b, left, right) ==
  LET depth == Head(b.stack).depth
  IN IF depth >= MaxDepth THEN [b EXCEPT !.status = "RangeError"]
     ELSE [b EXCEPT !.stack = <<[P |-> left, depth |-> depth + 1],
                                [P |-> right, depth |-> depth + 1]>> \o Tail(@)]

\* adaptiveCubic(P0, P1, P2, P3, tolerance, out), one call
adaptiveCubic ==
  /\ bezier.status = "running" /\ bezier.kind = "cubic"
  /\ LET P == Head(bezier.stack).P
         P0 == P[1]
         P1 == P[2]
         P2 == P[3]
         P3 == P[4]
         tolerance == BEZIER_FLATNESS_TOLERANCE
         L1 == mid(P0, P1)
         H == mid(P1, P2)
         R2 == mid(P2, P3)
         L2 == mid(L1, H)
         R1 == mid(H, R2)
         M == mid(L2, R1)
     IN bezier' = IF withinTolerance(P1, P0, P3, tolerance)
                       /\ withinTolerance(P2, P0, P3, tolerance)
                    THEN returned(bezier, P3)
                    ELSE recurse(bezier, <<P0, L1, L2, M>>, <<M, R1, R2, P3>>)
  /\ UNCHANGED <<pathIn, tokenized, segments000, segments001, uses, upload>>
  /\ UNCHANGED <<seqVars, emitVars, layoutVars>>

\* adaptiveQuad(P0, P1, P2, tolerance, out), one call
adaptiveQuad ==
  /\ bezier.status = "running" /\ bezier.kind = "quad"
  /\ LET P == Head(bezier.stack).P
         P0 == P[1]
         P1 == P[2]
         P2 == P[3]
         tolerance == BEZIER_FLATNESS_TOLERANCE
         L1 == mid(P0, P1)
         R1 == mid(P1, P2)
         L2 == mid(L1, R1)
     IN bezier' = IF withinTolerance(P1, P0, P2, tolerance)
                    THEN returned(bezier, P2)
                    ELSE recurse(bezier, <<P0, L1, L2>>, <<L2, R1, P2>>)
  /\ UNCHANGED <<pathIn, tokenized, segments000, segments001, uses, upload>>
  /\ UNCHANGED <<seqVars, emitVars, layoutVars>>

\* The curves: from (0, 0) to (128, 0), each control coordinate a number or NaN
\* (parseFloat of a token such as "." that the number pattern lets through)
Curves ==
  LET ControlPoints == {pt(x, y) : x \in {0, 64, NaN}, y \in {0, 64, 128, NaN}}
  IN {Flatten("quad", <<pt(0, 0), P1, pt(128, 0)>>) : P1 \in ControlPoints}
       \cup {Flatten("cubic", <<pt(0, 0), P1, P2, pt(128, 0)>>) :
                P1 \in ControlPoints, P2 \in {pt(128, 128), pt(64, NaN)}}

\* A Bezier command of a path has reached its flattening call
InitFlatten ==
  /\ InitSeq
  /\ connectionStatus = "disconnected"
  /\ items = <<>>
  /\ plot000 = NoPlot
  /\ plot001 = NoPlot
  /\ NoDrag
  /\ NoPathElement
  /\ bezier \in Curves
  /\ uses = NoUses
  /\ upload = NoUpload

NextFlatten ==
  \/ adaptiveCubic
  \/ adaptiveQuad

\* ------------------------------------------------ expanding <use>
\* if (depth > 15) return
useDepthLimit == 15
\* expandUsesInClone called at a depth past the limit
tooDeep_late(depth) == depth > useDepthLimit + 1
tooDeep(depth) == depth > useDepthLimit

\* A document: for each id the <use> elements inside the element of that id, as
\* the ids they refer to ("none": no element of that id, or one of a tag that is
\* not supported), and the <use> elements outside <defs>
Documents ==
  LET UseLists == {<<>>, <<"a">>, <<"b">>, <<"none", "a">>, <<"b", "none">>}
  IN {[a |-> ua, b |-> ub, top |-> t] :
        ua \in UseLists, ub \in UseLists, t \in {<<"a">>, <<"none", "b">>}}
       \cup {[a |-> <<"a", "a">>, b |-> <<>>, top |-> <<"a">>]}

\* A call of expandUsesInClone(clone, svgRoot, depth) for the element of the
\* given id: the <use> elements of the clone its forEach has still to visit
Expanding(doc, id, depth) ==
  [pending |-> IF id = "a" THEN doc.a ELSE doc.b, depth |-> depth]

\* parseSVG: the next <use> outside <defs> is resolved: the element it refers
\* to is cloned and expandUsesInClone(clone, svgDom, 0) is called
resolveUse ==
  /\ uses.status = "running" /\ uses.stack = <<>>
  /\ LET id == Head(uses.top)
     IN uses' = IF Len(uses.top) = 0 THEN [uses EXCEPT !.status = "done"]
                ELSE IF id = "none" THEN [uses EXCEPT !.top = Tail(@)]
                ELSE [uses EXCEPT !.top = Tail(@), !.clones = @ + 1,
                                  !.stack = <<Expanding(uses.doc, id, 0)>>]
  /\ UNCHANGED <<pathIn, tokenized, segments000, segments001, bezier, upload>>
  /\ UNCHANGED <<seqVars, emitVars, layoutVars>>

\* expandUsesInClone: the call on top of the stack returns (past the depth
\* limit, or all its <use> elements visited) or visits its next <use>
expandUsesInClone ==
  /\ uses.status = "running" /\ uses.stack # <<>>
  /\ LET call == Head(uses.stack)
         id == Head(call.pending)
         rest == <<[call EXCEPT !.pending = Tail(@)]>> \o Tail(uses.stack)
     IN uses' = IF tooDeep(call.depth) \/ call.pending = <<>>
                  THEN [uses EXCEPT !.stack = Tail(@)]
                ELSE IF id = "none" THEN [uses EXCEPT !.stack = rest]
                ELSE [uses EXCEPT
                        !.clones = @ + 1,
                        !.deepest = Max(@, call.depth),
                        !.stack = <<Expanding(uses.doc, id, call.depth + 1)>> \o rest]
  /\ UNCHANGED <<pathIn, tokenized, segments000, segments001, bezier, upload>>
  /\ UNCHANGED <<seqVars, emitVars, layoutVars>>

\* parseSVG has reached the resolution of the <use> elements of a document
InitUses ==
  /\ InitSeq
  /\ connectionStatus = "disconnected"
  /\ items = <<>>
  /\ plot000 = NoPlot
  /\ plot001 = NoPlot
  /\ NoDrag
  /\ NoPathElement
  /\ bezier = NoBezier
  /\ uses \in {[NoUses EXCEPT !.status = "running", !.doc = doc, !.top = doc.top] :
                  doc \in Documents}
  /\ upload = NoUpload

NextUses ==
  \/ resolveUse
  \/ expandUsesInClone

\* ------------------------------------------------ uploading files
MaxFiles == 2       \* .svg files in one selection
MaxReads == 4       \* FileReaders at work at a time

\* <circle r="0"/>: a file parseSVG finds no paths in
emptySvg ==
  [el |-> [tag |-> "circle", cx |-> 50, cy |-> 50, r |-> 0, ctm |-> Identity],
   os |-> ViewBox(100, 100)]

\* pendingUploadsRef.current -= 1; if (pendingUploadsRef.current === 0) setIsUploading(false)
readEnded(u) ==
  [u EXCEPT !.pendingUploadsRef = @ - 1,
            !.isUploading = IF u.pendingUploadsRef - 1 = 0 THEN FALSE ELSE @,
            !.reading = @ - 1]

\* handleFile for a selection with n .svg files among its files
handleFile(n) ==
  /\ upload.reading + n <= MaxReads
  /\ upload' = IF n = 0 THEN upload
               ELSE [upload EXCEPT !.pendingUploadsRef = n, !.isUploading = TRUE,
                                   !.reading = @ + n,
                                   !.overlapped = @ \/ upload.reading > 0]
  /\ UNCHANGED <<pathIn, tokenized, segments000, segments001, bezier, uses>>
  /\ UNCHANGED <<seqVars, emitVars, layoutVars>>

\* reader.onload for a file that holds the drawing svg: parseSVG,
\* addItemsFromParsed if there are paths, and the count
onload(svg) ==
  /\ upload.reading > 0
  /\ IF sampleElement000(svg.el) # <<>>
       THEN /\ Len(items) < MaxItems
            /\ LET initialWidth == 100000
                   initialHeight ==
                     IF svg.os.w > 0 THEN round((initialWidth * svg.os.h) \div svg.os.w)
                     ELSE initialWidth
                   offset == Len(items) * 22000
                   newItem == [el |-> svg.el, originalSize |-> svg.os,
                               settings |-> [DEFAULT_SETTINGS EXCEPT
                                               !.width = initialWidth,
                                               !.height = initialHeight,
                                               !.posX = Max(-250000, -offset),
                                               !.posY = Min(300000 - initialHeight, offset)]]
               IN /\ items' = Append(items, newItem)
                  /\ activeId' = Len(items) + 1
       ELSE UNCHANGED <<items, activeId>>
  /\ upload' = readEnded(upload)
  /\ dragged' = 0
  /\ UNCHANGED <<plot000, plot001, dragMode, dragItemIdRef, plotter>>
  /\ UNCHANGED <<pathIn, tokenized, segments000, segments001, bezier, uses>>
  /\ UNCHANGED seqVars

\* reader.onerror
onerror ==
  /\ upload.reading > 0
  /\ upload' = readEnded(upload)
  /\ UNCHANGED <<pathIn, tokenized, segments000, segments001, bezier, uses>>
  /\ UNCHANGED <<seqVars, emitVars, layoutVars>>

NextUpload ==
  \/ \E n \in 0..MaxFiles : handleFile(n)
  \/ \E svg \in {rectSvg, wideSvg, emptySvg} : onload(svg)
  \/ onerror

\* ======================================================================
\* The specifications
\* ======================================================================

NextSeq ==
  \/ handleDrop
  \/ handleDeleteBlock
  \/ setSimulationCount
  \/ handleSimulate
  \/ handleWebSocketMessage
  \/ timeout
  \/ jog
  \/ disconnect
  \/ connect

Spec == Init /\ [][NextSeq]_vars

SpecEmit == InitEmit /\ [][NextEmit]_vars

\* The sequencer with its scheduling: the browser delivers every message of the
\* open WebSocket to handleWebSocketMessage, and a timer set with setTimeout(.., 50)
\* fires
SpecLive ==
  Init /\ [][NextSeq]_vars /\ WF_vars(handleWebSocketMessage) /\ WF_vars(timeout)

SpecLayout == InitLayout /\ [][NextLayout]_vars

SpecPath == InitPath /\ [][NextPath]_vars

SpecAspect == InitLayout /\ [][NextAspect]_vars

\* Flattening runs to its end without yielding: a call that can run does
SpecFlatten == InitFlatten /\ [][NextFlatten]_vars /\ WF_vars(NextFlatten)

SpecUpload == InitLayout /\ [][NextUpload]_vars

\* The expansion runs to its end without yielding
SpecUses == InitUses /\ [][NextUses]_vars /\ WF_vars(NextUses)

\* =================================================================== claims
\* A step in which a queue line of the run is handed to sendWebSocketMessage.
Tx == runSent' # runSent /\ runSent' # <<>>
\* A step in which handleWebSocketMessage takes an "ok" off the wire.
OkStep == acks # <<>> /\ acks' = Tail(acks)
Prefix(n) == [k \in 1..n |-> k - 1]
Handed == {runSent[k] : k \in 1..Len(runSent)}

\* C1: single-outstanding discipline. In every step that hands a queue line to the
\* transport the sequencer was not awaiting an acknowledgment (waitingForOk false
\* before the step), and an "ok" was accepted since the previous queue line was
\* handed over, whatever the interleaving of oks, timers and handleSimulate calls.
C1_SingleOutstanding == [][Tx => (~waitingForOk /\ ~txPending)]_vars

\* C1 witness: the run's second line is out and awaits its "ok".
C1_Witness == isSimulatingRef /\ waitingForOk /\ txPending /\ Len(runSent) = 2

\* C2 (as claimed): line N+1 is never handed over before the device's own "ok" for
\* line N reached the page, and the lines go out in increasing index order.
C2_StrictlySequential ==
  /\ \A k \in 1..Len(runSent) : runSent[k] > 0 => (runSent[k] - 1) \in devAcked
  /\ \A j, k \in 1..Len(runSent) : j < k => runSent[j] < runSent[k]

\* C3 (as claimed): a run of K lines. handleSimulate hands over line 0 and only line
\* 0; after j accepted "ok"s (j < K) and the 50 ms timer exactly lines 0..j have been
\* handed over, in order; the K-th "ok" hands over nothing, and the step that ends
\* the run leaves the sequencer Idle (isSimulating false, queue empty, index 0, not
\* waiting) with exactly one "Simulation completed!" alert, raised in that step.
C3_RunState ==
  /\ alerts <= 1
  /\ isSimulatingRef =>
       /\ alerts = 0
       /\ currentGcodeIndex = okCount
       /\ runLen = Len(gcodeQueue)
       /\ waitingForOk => okCount < runLen
       /\ runSent = Prefix(okCount + (IF waitingForOk THEN 1 ELSE 0))
  /\ (~isSimulatingRef /\ started) =>
       /\ alerts = 1
       /\ ~isSimulating /\ gcodeQueue = <<>> /\ currentGcodeIndex = 0 /\ ~waitingForOk
C3_RunStep ==
  /\ (isSimulatingRef /\ ~isSimulatingRef') =>
       /\ okCount = runLen
       /\ runSent = Prefix(runLen)
       /\ acks' = acks
       /\ alerts' = 1
  /\ (isSimulatingRef' /\ OkStep) => runSent' = runSent
C3_ThreeLineRun == []C3_RunState /\ [][C3_RunStep]_vars

\* C4 (as claimed): an "ok" that does not answer the outstanding sequencer line (the
\* answer to a manual command, or to a line of an earlier run) neither advances the
\* index nor arms the timer that sends the next line.
Foreign(tag) == ~(tag.of = "cur" /\ tag.idx = currentGcodeIndex /\ waitingForOk)
C4_ForeignOkIgnored ==
  [][(OkStep /\ Foreign(Head(acks))) =>
       (currentGcodeIndex' = currentGcodeIndex /\ timers' = timers)]_vars

\* C5 (as claimed): a device disconnect in any sequencer state forces Idle and clears
\* the pending state.
C5_DisconnectForcesIdle ==
  [][(connectionStatus = "connected" /\ connectionStatus' = "disconnected") =>
       /\ ~isSimulatingRef' /\ ~isSimulating' /\ ~waitingForOk'
       /\ gcodeQueue' = <<>> /\ currentGcodeIndex' = 0]_vars

\* C6 (as claimed): in a run that lost the connection, whenever a line is marked as
\* sent (the waiting flag is set for it) it is handed to the transport in that step,
\* so the index never moves past a line the transport has not been given.
C6_MarkedImpliesHanded ==
  [][(isSimulatingRef /\ lostDuringRun /\ ~waitingForOk /\ waitingForOk') => Tx]_vars

\* C19 (as claimed): exactly-once, in-order delivery. At every moment of a run the
\* lines handed to the transport are a prefix of the run's queue, each handed over
\* once, and the run completes only when they are the whole queue.
C19_HandedPrefix == \E n \in 0..runLen : runSent = Prefix(n)
C19_ExactlyOnceInOrder ==
  /\ []C19_HandedPrefix
  /\ [][(isSimulatingRef /\ ~isSimulatingRef') => runSent = Prefix(runLen)]_vars

\* What holds of C19: no line is handed over twice, and the lines go out in
\* increasing index order
C19_OnceInOrder ==
  \A j, k \in 1..Len(runSent) : j < k => runSent[j] < runSent[k]

\* C20 (as claimed): progress. While the connection stays up and every line that
\* is transmitted is answered, every run that was started ends: it raises
\* "Simulation completed!" and returns to Idle.
C20_Progress == isSimulatingRef ~> (~isSimulatingRef \/ lostDuringRun)

\* What holds of C20: a line that was handed to the transport is answered and the
\* sequencer moves on from it
C20_HandedLineAnswered ==
  (isSimulatingRef /\ txPending) ~> (~isSimulatingRef \/ lostDuringRun \/ ~txPending)

\* C21: no timeout. After a line was transmitted, as long as no "ok" is taken off the
\* wire the sequencer stays as it is, awaiting the acknowledgment: no step but the
\* receipt of an "ok" transmits another line, raises completion or returns to Idle.
C21_NoTimeout ==
  [][(isSimulatingRef /\ waitingForOk /\ txPending /\ ~OkStep) =>
       /\ isSimulatingRef' /\ isSimulating' /\ waitingForOk'
       /\ runSent' = runSent
       /\ currentGcodeIndex' = currentGcodeIndex
       /\ alerts' = alerts]_vars

\* C21 witness: the second line was transmitted, the connection was lost before its
\* "ok" was read, and the sequencer still awaits it
C21_Witness ==
  /\ isSimulatingRef /\ isSimulating /\ waitingForOk /\ txPending
  /\ Len(runSent) = 2 /\ alerts = 0
  /\ connectionStatus = "disconnected" /\ lostDuringRun

\* ======================================================================
\* Part II claims: the emitted programs
\* ======================================================================

IsLift(c) == c.g = "G0" /\ c.ax = "Z"
IsLower(c) == c.g = "G1" /\ c.ax = "Z"
IsTravel(c) == c.g = "G0" /\ c.ax = "XY"
IsCut(c) == c.g \in {"G1", "G2", "G3"} /\ c.ax = "XY"
IsArc(c) == c.g \in {"G2", "G3"}

\* Is the tool down after the first n lines of the program?
RECURSIVE ToolDown(_, _)
ToolDown(code, n) ==
  IF n = 0 THEN FALSE
  ELSE IF IsLower(code[n]) THEN TRUE
  ELSE IF IsLift(code[n]) THEN FALSE
  ELSE ToolDown(code, n - 1)

\* Where is the tool (micrometres) after the first n lines of the program?
RECURSIVE PosAfter(_, _)
PosAfter(code, n) ==
  IF n = 0 THEN pt(0, 0)
  ELSE IF code[n].ax = "XY" THEN pt(code[n].x, code[n].y)
  ELSE PosAfter(code, n - 1)

\* Segment k of a program starts a new stroke: there is no previous end point, or
\* it starts farther than the threshold from the previous segment's end.
NewStroke(marks, k) ==
  \/ k = 1
  \/ Discontinuous(marks[k].p1.x - marks[k - 1].p2.x, marks[k].p1.y - marks[k - 1].p2.y)

\* The lines before the cutting move of segment k are: a lift if and only if the
\* tool was down, a travel move to (x, y), a tool-lower.
StrokeOpened(P, k, x, y) ==
  LET c == P.marks[k].cut
  IN /\ c > 3
     /\ IsLower(P.code[c - 1])
     /\ IsTravel(P.code[c - 2]) /\ P.code[c - 2].x = x /\ P.code[c - 2].y = y
     /\ ~ToolDown(P.code, c - 3)
     /\ \A n \in P.marks[k].first .. (c - 3) : IsLift(P.code[n]) /\ ToolDown(P.code, n - 1)
     /\ k > 1 =>
          \E n \in (P.marks[k - 1].cutEnd + 1) .. (c - 3) : IsLift(P.code[n])

Connected(marks, k) == k > 1 /\ marks[k].p1 = marks[k - 1].p2

\* The moves of a program between its header and its footer
Body(P) ==
  IF P.marks = <<>> THEN <<>>
  ELSE SubSeq(P.code, P.marks[1].first, P.marks[Len(P.marks)].cutEnd + 1)
Targets(moves) == [n \in 1..Len(moves) |-> <<moves[n].x, moves[n].y>>]

\* The program of the 10 x 10 rect placed 100 mm x 100 mm at the origin: one
\* travel move to the first corner, one tool-down, the four edges, one tool-up.
OneSquareStroke(P) ==
  LET body == Body(P)
  IN /\ Targets(SelectSeq(body, IsTravel)) = <<<<0, 0>>>>
     /\ Len(SelectSeq(body, IsLower)) = 1
     /\ Targets(SelectSeq(body, IsCut))
          = << <<100000, 0>>, <<100000, 100000>>, <<0, 100000>>, <<0, 0>> >>
     /\ Len(SelectSeq(body, IsLift)) = 1
     /\ IsLift(body[Len(body)])

\* C8: in a chain of segments in which each starts where the previous one
\* ended, the cutting move of a segment follows the cutting move of the
\* previous one with no lift or travel between them; the four edges of a rect
\* (viewBox 10 x 10, placed 100 mm x 100 mm) give exactly one travel move to
\* the first corner, one tool-down, four 100 mm cutting moves closing the
\* square and one tool-up.  In both programs.
C8_ConnectedOneStroke ==
  /\ \A k \in 1..Len(plot000.marks) :
       (Connected(plot000.marks, k) /\ plot000.marks[k].cut # 0) =>
         plot000.marks[k].cut = plot000.marks[k - 1].cutEnd + 1
  /\ \A k \in 1..Len(plot001.marks) :
       (Connected(plot001.marks, k) /\ plot001.marks[k].cut # 0) =>
         plot001.marks[k].cut = plot001.marks[k - 1].cutEnd + 1
  /\ items = <<Item(rectSvg, 100000, 100000, 0, 0)>> =>
       /\ plot000.done => OneSquareStroke(plot000)
       /\ plot001.done => OneSquareStroke(plot001)

\* Math.hypot(dx, dy) in units of s micrometres
Hypot(dx, dy, s) == Sqrt((dx \div s) * (dx \div s) + (dy \div s) * (dy \div s))

\* Line n of the program is an arc whose center (start + I, start + J) is as far
\* from the move's start as from its end, to within the three decimals written
\* (s = 1 for arcs up to 30 mm across; a coarser unit keeps the squares of longer
\* ones within 32 bits).
ArcValid(code, n) ==
  LET start == PosAfter(code, n - 1)
      c == code[n]
      ex == c.x - (start.x + c.i)
      ey == c.y - (start.y + c.j)
      s == (Max(Max(Abs(c.i), Abs(c.j)), Max(Abs(ex), Abs(ey))) \div 30000) + 1
  IN Abs(Hypot(c.i, c.j, s) - Hypot(ex, ey, s)) <= 2

\* C9: for every G2/G3 move of a program, the center given by I and J is at
\* equal distance from the move's start point and its end point within
\* formatting precision, whatever the placement (scaleX different from scaleY
\* included) and whatever the ancestor transform.  In both programs.
C9_ArcValidity ==
  /\ \A n \in 1..Len(plot000.code) : IsArc(plot000.code[n]) => ArcValid(plot000.code, n)
  /\ \A n \in 1..Len(plot001.code) : IsArc(plot001.code[n]) => ArcValid(plot001.code, n)

\* The arcs a program has for segments of path elements
PathArcs(P) ==
  {k \in 1..Len(P.marks) :
     /\ items[P.marks[k].item].el.tag = "path"
     /\ P.marks[k].cut # 0
     /\ IsArc(P.code[P.marks[k].cut])}

\* C10: the same geometric arc traversed in the same direction gets the same
\* code: an A command of an item, from the same start to the same end about the
\* same center, is G2 in both programs or G3 in both.
C10_SameDirectionCode ==
  \A a \in PathArcs(plot000) : \A b \in PathArcs(plot001) :
    LET ca == plot000.code[plot000.marks[a].cut]
        cb == plot001.code[plot001.marks[b].cut]
    IN (/\ plot000.marks[a].item = plot001.marks[b].item
        /\ plot000.marks[a].p1 = plot001.marks[b].p1
        /\ plot000.marks[a].p2 = plot001.marks[b].p2
        /\ ca.i = cb.i /\ ca.j = cb.j)
         => ca.g = cb.g

\* Item n is a circle element of radius r > 0 placed at uniform scale.
UniformCircle(n) ==
  /\ items[n].el.tag = "circle"
  /\ items[n].el.r > 0
  /\ items[n].el.ctm = Identity
  /\ items[n].settings.width * items[n].originalSize.h
       = items[n].settings.height * items[n].originalSize.w

\* The moves of program P for the circle item n are two arcs between the ends
\* of the horizontal diameter, one each way, with (I, J) pointing from the
\* move's start to the circle's center (out formats a bed coordinate as the
\* program writes it: 1 for fmt, 2 for roundGcode).
TwoArcs(P, n, out) ==
  LET el == items[n].el
      left == tx(items[n], pt(el.cx - el.r, el.cy))
      right == tx(items[n], pt(el.cx + el.r, el.cy))
      center == tx(items[n], pt(el.cx, el.cy))
      w(c) == IF out = 1 THEN fmt(c) ELSE roundGcode(c)
      mine == {k \in 1..Len(P.marks) : P.marks[k].item = n}
  IN /\ Cardinality(mine) = 2
     /\ {<<P.marks[k].p1, P.marks[k].p2>> : k \in mine} = {<<left, right>>, <<right, left>>}
     /\ \A k \in mine :
          LET c == P.code[P.marks[k].cut]
          IN /\ P.marks[k].cut # 0
             /\ P.marks[k].cutEnd = P.marks[k].cut
             /\ IsArc(c) /\ ~c.run
             /\ c.x = w(P.marks[k].p2.x) /\ c.y = w(P.marks[k].p2.y)
             /\ w(P.marks[k].p1.x) + c.i = w(center.x)
             /\ w(P.marks[k].p1.y) + c.j = w(center.y)

\* C11: a circle element of radius r > 0 placed at uniform scale is emitted as
\* exactly two G2/G3 moves and no sampled G1 moves, each between the two ends
\* of the horizontal diameter, with a center offset (I, J) that points from the
\* move's start to the circle's center.  In both programs.
C11_CircleTwoArcs ==
  \A n \in 1..Len(items) :
    UniformCircle(n) =>
      /\ plot000.done => TwoArcs(plot000, n, 1)
      /\ plot001.done => TwoArcs(plot001, n, 2)

\* A uniformly scaled circle is the second item, and both programs are there.
C11_Witness ==
  /\ plot000.done /\ plot001.done
  /\ Len(items) = 2 /\ UniformCircle(2)

\* The segments sampleElement makes of the items n.., in program order, each
\* with its item: its start and its end in the element's document space.
RECURSIVE Ends000(_)
Ends000(n) ==
  IF n > Len(items) THEN <<>>
  ELSE LET paths == sampleElement000(items[n].el)
       IN [k \in 1..Len(paths) |-> [item |-> n, p1 |-> paths[k].p1, p2 |-> paths[k].p2]]
            \o Ends000(n + 1)
RECURSIVE Ends001(_)
Ends001(n) ==
  IF n > Len(items) THEN <<>>
  ELSE LET paths == sampleElement001(items[n].el)
       IN [k \in 1..Len(paths) |->
             [item |-> n,
              p1 |-> IF paths[k].type = "line" THEN paths[k].points[1] ELSE paths[k].start,
              p2 |-> IF paths[k].type = "line" THEN paths[k].points[Len(paths[k].points)]
                     ELSE paths[k].end]]
            \o Ends001(n + 1)

\* The layout mapping of a document-space point p of an item, the bed center
\* being X = 0: bedX = posX + p.x * scaleX, bedY = posY + (height - p.y * scaleY).
LayoutX(item, p) ==
  2 * item.settings.posX + (2 * p.x * item.settings.width) \div item.originalSize.w
LayoutY(item, p) ==
  2 * item.settings.posY
    + (2 * item.settings.height - (2 * p.y * item.settings.height) \div item.originalSize.h)

\* The segments of program P start and end at the layout of their document-space
\* ends, and their cutting moves go to the layout of their end (ends: the
\* document-space ends in program order; out as in TwoArcs).  Moves that are
\* sampled runs are left out.
LaidOut(P, ends, out) ==
  /\ Len(P.marks) = Len(ends)
  /\ \A k \in 1..Len(P.marks) :
       LET item == items[ends[k].item]
           w(c) == IF out = 1 THEN fmt(c) ELSE roundGcode(c)
           last == P.code[P.marks[k].cutEnd]
       IN /\ P.marks[k].p1.x = LayoutX(item, ends[k].p1)
          /\ P.marks[k].p2.x = LayoutX(item, ends[k].p2)
          /\ P.marks[k].p1.y = LayoutY(item, ends[k].p1)
          /\ P.marks[k].p2.y = LayoutY(item, ends[k].p2)
          /\ (P.marks[k].cut # 0 /\ ~last.run) =>
               /\ last.x = w(LayoutX(item, ends[k].p2))
               /\ last.y = w(LayoutY(item, ends[k].p2))

\* C12: every segment point p of a placed item is mapped to bed coordinates as
\* bedX = bedCenterX + posX + p.x * scaleX and bedY = posY + (height - p.y * scaleY):
\* a point at the top of the artwork (p.y = 0) lands at bed Y = posY + height.
\* In both programs.
C12_LayoutMapping ==
  /\ plot000.done => LaidOut(plot000, Ends000(1), 1)
  /\ plot001.done => LaidOut(plot001, Ends001(1), 2)

\* ----------------------------------------------------------------------
\* C13  Drag clamping.  After every drag move, whatever the width and height of
\* the item, the dragged item lies on the bed: -250 mm <= posX <= 250 mm - width
\* and 0 <= posY <= 300 mm - height.  Both pages are covered: the item dragged
\* in part_000 and the drawing dragged in Plotter.jsx.
OnBed(s) ==
  /\ -250000 <= s.posX
  /\ s.posX <= 250000 - s.width
  /\ 0 <= s.posY
  /\ s.posY <= 300000 - s.height

C13_DragClamped ==
  /\ dragged # 0 => OnBed(items[dragged].settings)
  /\ plotter.dragged => OnBed(plotter.settings)

\* The part of C13 that the code keeps: the lower ends of the two ranges
C13_LowerEnds ==
  /\ dragged # 0 => /\ -250000 <= items[dragged].settings.posX
                     /\ 0 <= items[dragged].settings.posY
  /\ plotter.dragged => /\ -250000 <= plotter.settings.posX
                         /\ 0 <= plotter.settings.posY

\* ======================================================================
\* Part III: reading path data
\* ======================================================================

\* The letter the records after the first carry
Follow(c) == CASE c = "M" -> "L" [] c = "m" -> "l" [] OTHER -> c

\* ----------------------------------------------------------------------
\* C14  Implicit command repetition.  A command letter followed by k complete
\* argument groups gives k command records with the arguments in order: the
\* first carries the letter, the following ones L (l) when the letter is M (m)
\* and the letter itself otherwise.  The path interpreter of part_000, which
\* repeats the command itself, makes of the path what it makes of the records.
C14_ImplicitRepetition ==
  pathIn.family = "repeat" /\ pathIn.cut = 0 =>
    /\ tokenized.done =>
          /\ Len(tokenized.out) = pathIn.k + 2
          /\ \A j \in 1..pathIn.k :
                tokenized.out[j + 1]
                  = PathCmd(IF j = 1 THEN pathIn.c ELSE Follow(pathIn.c), group(pathIn.c, j))
    /\ segments000.done =>
          segments000.out
            = explodeFrom(tokenizePathD(pathIn.d), 1, 0, ExplodeStart, pathIn.ctm)

\* "M10 20 M101 102 201 202 l70 80" tokenized and interpreted: M, M, L, l
C14_Witness ==
  /\ pathIn.family = "repeat" /\ pathIn.cut = 0
  /\ pathIn.c = "M" /\ pathIn.k = 2
  /\ tokenized.done /\ segments000.done
  /\ tokenized.out[3] = PathCmd("L", <<201, 202>>)
  /\ Len(segments000.out) = 2

\* The records of the path of a "repeat" element with its dangling command left out
WellFormed ==
  LET c == pathIn.c
      whole == (pathIn.k * argCount(c) - pathIn.cut) \div argCount(c)
  IN <<PathCmd("M", <<10, 20>>)>>
       \o [j \in 1..whole |-> PathCmd(IF j = 1 THEN c ELSE Follow(c), group(c, j))]
       \o <<PathCmd("l", <<70, 80>>)>>

\* ----------------------------------------------------------------------
\* C15  Malformed argument counts.  When a command has fewer arguments than it
\* requires, only that dangling command is dropped: the well-formed commands
\* before it are kept and the ones that follow it are still tokenized and
\* interpreted.
C15_DanglingDropped ==
  pathIn.family = "repeat" =>
    /\ tokenized.done => tokenized.out = WellFormed
    /\ segments001.done =>
          segments001.out
            = parseFrom(WellFormed, 1, [x |-> 0, y |-> 0, sx |-> 0, sy |-> 0], pathIn.ctm)

\* What the tokenizer keeps of C15: the well-formed commands before the dangling one
C15_EarlierKept ==
  pathIn.family = "repeat" /\ tokenized.done =>
    /\ Len(tokenized.out) <= Len(WellFormed)
    /\ tokenized.out = SubSeq(WellFormed, 1, Len(tokenized.out))
    /\ Len(tokenized.out) >= Len(WellFormed) - 1

\* A point whose coordinates are numbers
Defined(p) == p.x # NaN /\ p.y # NaN

\* ----------------------------------------------------------------------
\* C16  No garbage coordinates.  Whatever the path data, incomplete argument
\* groups and zero-radius arcs included, no segment the path interpreter
\* produces holds an undefined or NaN coordinate: the offending segment is
\* skipped.
C16_NoGarbage ==
  segments000.done =>
    \A n \in 1..Len(segments000.out) :
      LET seg == segments000.out[n]
      IN /\ Defined(seg.p1) /\ Defined(seg.p2)
         /\ seg.type = "curve" =>
               /\ Defined(pt(seg.curve.x1, seg.curve.y1))
               /\ Defined(pt(seg.curve.x2, seg.curve.y2))
         /\ seg.type = "arc" => seg.params.rx # NaN /\ seg.params.ry # NaN

\* What holds of C16: complete argument groups, zero radii included, give numbers
C16_CompleteGroups ==
  segments000.done /\ (pathIn.family = "repeat" => pathIn.cut = 0) =>
    \A n \in 1..Len(segments000.out) :
      Defined(segments000.out[n].p1) /\ Defined(segments000.out[n].p2)

\* The "close" paths: "M0 0 L100 0 Lx y Z l70 80", (x, y) kept in pathIn.k, pathIn.cut
\* The segments a Z gives rise to when points less than eps apart count as equal:
\* two lines, the closing line unless (x, y) is the subpath start, and the line
\* after Z, which starts at the subpath start.
ClosedAsSpecified(lines, eps) ==
  LET x == pathIn.k
      y == pathIn.cut
      atStart == IF eps = 0 THEN x = 0 /\ y = 0 ELSE x * x + y * y < eps * eps
      start == applyCtm(pathIn.ctm, pt(0, 0))
  IN /\ Len(lines) = IF atStart THEN 3 ELSE 4
     /\ ~atStart => lines[3] = <<applyCtm(pathIn.ctm, pt(x, y)), start>>
     /\ lines[Len(lines)] = <<start, applyCtm(pathIn.ctm, pt(70, 80))>>

Lines000 == [n \in 1..Len(segments000.out) |-> <<segments000.out[n].p1, segments000.out[n].p2>>]
Lines001 == [n \in 1..Len(segments001.out) |-> segments001.out[n].points]

\* ----------------------------------------------------------------------
\* C17  Closed-path detection.  Z emits no segment when the current point equals
\* the subpath start within a small epsilon, and exactly one closing line from
\* the current point to the subpath start otherwise; afterwards the current
\* point is the subpath start.
C17_ClosedPath ==
  pathIn.family = "close" =>
    /\ segments000.done => ClosedAsSpecified(Lines000, closedEpsilon)
    /\ segments001.done => ClosedAsSpecified(Lines001, closedEpsilon)

\* What holds of C17: the same with exact equality in the place of the epsilon
C17_ClosedExactly ==
  pathIn.family = "close" =>
    /\ segments000.done => ClosedAsSpecified(Lines000, 0)
    /\ segments001.done => ClosedAsSpecified(Lines001, 0)

\* The coordinates stored on the segments of part_000 and part_001, in order
Stored000(seg) ==
  <<seg.p1, seg.p2>>
    \o (IF seg.type = "curve" THEN <<pt(seg.curve.x1, seg.curve.y1)>> ELSE <<>>)
    \o (IF seg.type = "curve" /\ seg.curve.type = "cubic"
          THEN <<pt(seg.curve.x2, seg.curve.y2)>> ELSE <<>>)
Stored001(seg) ==
  CASE seg.type = "line" -> seg.points
    [] seg.type = "arc" -> <<seg.start, seg.end>>
    [] OTHER -> <<seg.start, seg.end>>

\* The segments out are the segments local, made of the same path without a
\* transform, with every stored coordinate mapped by the element's CTM
Mapped(out, local) ==
  /\ Len(out) = Len(local)
  /\ \A n \in 1..Len(out) :
        /\ Len(out[n]) = Len(local[n])
        /\ \A i \in 1..Len(out[n]) :
              out[n][i] = ptCtm(pathIn.ctm, local[n][i].x, local[n][i].y)

Coords000(segs) == [n \in 1..Len(segs) |-> Stored000(segs[n])]
Coords001(segs) == [n \in 1..Len(segs) |-> Stored001(segs[n])]

CentersMapped(out, local) ==
  \A n \in 1..Len(out) :
    out[n].type = "arc" => out[n].center2 = applyCtm2(pathIn.ctm, local[n].center2)

\* ----------------------------------------------------------------------
\* C18  Every coordinate stored on a segment made from a path (line ends, arc
\* ends and centers, Bezier control points) has been passed through the
\* element's transform (applyCtm).
C18_AllThroughCtm ==
  (pathIn.family = "repeat" => pathIn.cut = 0) =>
  /\ segments000.done =>
        Mapped(Coords000(segments000.out),
               Coords000(explodePathToSegments(pathIn.d, Identity)))
  /\ segments001.done =>
        /\ Mapped(Coords001(segments001.out),
                  Coords001(parsePathToSegments(pathIn.d, Identity)))
        /\ CentersMapped(segments001.out, parsePathToSegments(pathIn.d, Identity))

\* What holds of C18: the segment ends of part_000, every coordinate of part_001
C18_EndsThroughCtm ==
  /\ segments000.done =>
        LET local == explodePathToSegments(pathIn.d, Identity)
        IN \A n \in 1..Len(local) :
             /\ segments000.out[n].p1 = ptCtm(pathIn.ctm, local[n].p1.x, local[n].p1.y)
             /\ segments000.out[n].p2 = ptCtm(pathIn.ctm, local[n].p2.x, local[n].p2.y)
  /\ segments001.done =>
        /\ Mapped(Coords001(segments001.out),
                  Coords001(parsePathToSegments(pathIn.d, Identity)))
        /\ CentersMapped(segments001.out, parsePathToSegments(pathIn.d, Identity))

\* ======================================================================
\* Part II claims, continued
\* ======================================================================

\* The Z word of the last Z move among the first n lines (none: no height yet)
RECURSIVE ToolZ(_, _)
ToolZ(code, n) ==
  IF n = 0 THEN [known |-> FALSE, z |-> 0]
  ELSE IF code[n].ax = "Z" THEN [known |-> TRUE, z |-> code[n].z]
  ELSE ToolZ(code, n - 1)

ToolSafe(P) ==
  LET code == P.code
      up == [known |-> TRUE, z |-> items[1].settings.zUp]
      down == [known |-> TRUE, z |-> items[1].settings.zDown]
  IN /\ \A n \in 1..Len(code) :
          /\ IsTravel(code[n]) => ToolZ(code, n - 1) = up /\ ~ToolDown(code, n - 1)
          /\ IsCut(code[n]) => ToolZ(code, n - 1) = down /\ ToolDown(code, n - 1)
     /\ code[Len(code)].g = "M2"
     /\ IsTravel(code[Len(code) - 1])
     /\ code[Len(code) - 1].x = 0 /\ code[Len(code) - 1].y = 0
     /\ ToolZ(code, Len(code)) = up

Start001(seg) == IF seg.type = "line" THEN seg.points[1] ELSE seg.start
End001(seg) == IF seg.type = "line" THEN seg.points[Len(seg.points)] ELSE seg.end

\* Each segment starts where the one before it ended (the paths of the model
\* draw after their last M only)
Chained001 ==
  \A n \in 2..Len(segments001.out) :
    Start001(segments001.out[n]) = End001(segments001.out[n - 1])

\* ----------------------------------------------------------------------
\* C23  Subpath connectivity.  Between two M/m commands the path interpreter of
\* part_001 emits each segment starting at the transformed point where the
\* segment emitted before it ended, also across cubic commands and across arc
\* commands that are skipped as degenerate.
C23_SubpathConnected == segments001.done => Chained001

\* What holds of C23: connectivity wherever no arc command was skipped
C23_ConnectedUnlessSkipped ==
  segments001.done /\ pathIn.family # "zero" => Chained001

\* ======================================================================
\* Part II claims, continued: the two arcs of a circle
\* ======================================================================

\* The point half way along the arc move of segment k of program P, for an arc
\* that is half a circle: the center plus the start's radius vector turned a
\* quarter, counter-clockwise for G3 and clockwise for G2.
ArcApex(P, k) ==
  LET c == P.code[P.marks[k].cut]
      s == PosAfter(P.code, P.marks[k].cut - 1)
  IN IF c.g = "G3" THEN pt(s.x + c.i + c.j, s.y + c.j - c.i)
                   ELSE pt(s.x + c.i - c.j, s.y + c.j + c.i)

\* The center the arc move of segment k turns about
ArcCenter(P, k) ==
  LET c == P.code[P.marks[k].cut]
      s == PosAfter(P.code, P.marks[k].cut - 1)
  IN pt(s.x + c.i, s.y + c.j)

\* The segments of item n in program P, in program order
SegmentsOf(P, n) == {k \in 1..Len(P.marks) : P.marks[k].item = n}

\* The two arcs of item n in program P are the two halves of one circle: the
\* second starts where the first ends and ends where the first starts, and
\* their middle points lie opposite each other about the center.
TwoHalves(P, n) ==
  \A a, b \in SegmentsOf(P, n) :
    a < b =>
      /\ PosAfter(P.code, P.marks[a].cut) = PosAfter(P.code, P.marks[b].cut - 1)
      /\ PosAfter(P.code, P.marks[b].cut) = PosAfter(P.code, P.marks[a].cut - 1)
      /\ ArcCenter(P, a) = ArcCenter(P, b)
      /\ ArcApex(P, a).x + ArcApex(P, b).x = 2 * ArcCenter(P, a).x
      /\ ArcApex(P, a).y + ArcApex(P, b).y = 2 * ArcCenter(P, a).y
      /\ ArcApex(P, a) # ArcApex(P, b)

\* The two arcs of item n in program P run over the same half of the circle,
\* there and back.
SameHalf(P, n) ==
  \A a, b \in SegmentsOf(P, n) : ArcApex(P, a) = ArcApex(P, b)

\* ----------------------------------------------------------------------
\* C24  The two arcs emitted for a circle element are the two complementary
\* semicircles: with the start and end points and the G2/G3 direction as
\* emitted, the first arc covers one half of the circle and the second the
\* other half, so the circle is drawn exactly once.  In both programs.
C24_ComplementaryArcs ==
  \A n \in 1..Len(items) :
    UniformCircle(n) =>
      /\ plot000.done => TwoHalves(plot000, n)
      /\ plot001.done => TwoHalves(plot001, n)

\* What holds of C24: the arcs of ggcodeGenerateGCode (part_000) are the two
\* halves; the arcs of generateGCode (part_001) are one half, drawn twice.
C24_HalvesOfEachProgram ==
  \A n \in 1..Len(items) :
    UniformCircle(n) =>
      /\ plot000.done => TwoHalves(plot000, n)
      /\ plot001.done => SameHalf(plot001, n)

\* The smooth-curve rule, read on the path "M10 20 <prev> <c>": the current
\* point after the command prev, and the control point a following S (cubic)
\* or T (quadratic) has to mirror, if any.
AfterPrev(prev) ==
  LET o == IF isRelative(prev) THEN pt(10, 20) ELSE pt(0, 0)
      at(n, m) == pt(o.x + 100 + n, o.y + 100 + m)
      low == toLowerCase(prev)
  IN CASE low \in {"m", "l", "a"} -> [p |-> at(1, 2), cubic |-> NoCp, quad |-> NoCp]
       [] low = "h" -> [p |-> pt(o.x + 101, 20), cubic |-> NoCp, quad |-> NoCp]
       [] low = "v" -> [p |-> pt(10, o.y + 101), cubic |-> NoCp, quad |-> NoCp]
       [] low = "c" -> [p |-> at(5, 6), cubic |-> Cp(o.x + 103, o.y + 104), quad |-> NoCp]
       [] low = "s" -> [p |-> at(3, 4), cubic |-> Cp(o.x + 101, o.y + 102), quad |-> NoCp]
       [] low = "q" -> [p |-> at(3, 4), cubic |-> NoCp, quad |-> Cp(o.x + 101, o.y + 102)]
       [] low = "t" -> [p |-> at(1, 2), cubic |-> NoCp, quad |-> Cp(10, 20)]
       [] OTHER -> [p |-> pt(10, 20), cubic |-> NoCp, quad |-> NoCp]

\* The first control point the rule gives the smooth curve of the path
SmoothControl ==
  LET a == AfterPrev(pathIn.prev)
      last == IF pathIn.c \in {"S", "s"} THEN a.cubic ELSE a.quad
  IN IF last.ok THEN pt(2 * a.p.x - last.x, 2 * a.p.y - last.y) ELSE a.p

\* The first control point each parser gave the last curve of the path
Control000 ==
  LET seg == segments000.out[Len(segments000.out)] IN pt(seg.curve.x1, seg.curve.y1)
Control001 == segments001.out[Len(segments001.out)].P1

\* ----------------------------------------------------------------------
\* C25  Smooth-curve control point.  The first control point of an S (of a T)
\* is 2 * current - lastControl when the command just before was a cubic C or
\* S (a quadratic Q or T), and the current point otherwise: every non-curve
\* command, and a curve of the other kind, resets the remembered control.
C25_SmoothControl ==
  pathIn.family = "smooth" =>
    /\ segments000.done => Control000 = SmoothControl
    /\ segments001.done => Control001 = SmoothControl

\* What holds of C25: parsePathToSegments (part_001) follows the rule, and
\* explodePathToSegments (part_000) follows it unless the command before is a
\* curve of the other kind.
C25_SmoothControlSameKind ==
  pathIn.family = "smooth" =>
    /\ segments001.done => Control001 = SmoothControl
    /\ (/\ segments000.done
        /\ \/ toLowerCase(pathIn.prev) \notin {"c", "s", "q", "t"}
           \/ (toLowerCase(pathIn.prev) \in {"c", "s"}) = (pathIn.c \in {"S", "s"}))
         => Control000 = SmoothControl

\* ======================================================================
\* Part II claims, continued: the size panel
\* ======================================================================

\* Editing key of the settings prev of a drawing of natural size os gave the
\* settings next: with the lock on, the edited dimension is as typed (to 0.1 mm)
\* and the other one is within half of 0.1 mm of the proportional value; with
\* the lock off the other one is as it was.
Proportional(prev, next, os, key, value) ==
  IF prev.keepProportions
    THEN IF key = "width"
           THEN /\ next.width = round(value)
                /\ 2 * Abs(next.height * os.w - next.width * os.h) <= 100 * os.w
           ELSE /\ next.height = round(value)
                /\ 2 * Abs(next.width * os.h - next.height * os.w) <= 100 * os.h
    ELSE IF key = "width"
           THEN next.width = round(value) /\ next.height = prev.height
           ELSE next.height = round(value) /\ next.width = prev.width

\* ----------------------------------------------------------------------
\* C26  Aspect-ratio lock.  With keepProportions on, updateSetting('width', w)
\* sets the height to w * naturalH / naturalW and updateSetting('height', h) sets
\* the width to h * naturalW / naturalH, rounded to 0.1 mm, so that scaleX equals
\* scaleY up to that rounding; with keepProportions off the other dimension is
\* left as it was.  In part_000 (per item) and in Plotter.jsx.
C26_AspectLock ==
  [][\A key \in {"width", "height"} : \A value \in Sizes[key] :
       /\ updateSetting(key, value) =>
            Proportional(items[activeId].settings, items'[activeId].settings,
                         items[activeId].originalSize, key, value)
       /\ plotterUpdateSetting(key, value) =>
            Proportional(plotter.settings, plotter'.settings, plotter.originalSize,
                         key, value)]_vars

\* The second item, a 30 x 10 drawing with the lock on, has been given the width
\* 250 mm and got the height 83.3 mm; the page of Plotter.jsx likewise.
C26_Witness ==
  \/ /\ Len(items) = 2 /\ activeId = 2
     /\ items[2].originalSize = [w |-> 30, h |-> 10]
     /\ items[2].settings.keepProportions
     /\ items[2].settings.width = 250000 /\ items[2].settings.height = 83300
  \/ /\ plotter.originalSize = [w |-> 30, h |-> 10]
     /\ plotter.settings.keepProportions
     /\ plotter.settings.width = 250000 /\ plotter.settings.height = 83300

\* ----------------------------------------------------------------------
\* C27  Bed containment.  In every state reached by adding items, dragging them
\* and editing width, height, posX and posY, the rectangle [posX, posX + width]
\* x [posY, posY + height] of every item lies inside the bed [-250, 250] x [0, 300].
C27_BedContainment == \A n \in 1..Len(items) : OnBed(items[n].settings)

\* What holds of C27: an item that fits the bed is on the bed when it has just
\* been dragged
C27_FittingItemDragged ==
  dragged # 0 =>
    LET s == items[dragged].settings
    IN s.width <= 500000 /\ s.height <= 300000 => OnBed(s)

\* ======================================================================
\* Part III claims, continued: flattening
\* ======================================================================

\* The flattening has returned and the last vertex pushed is the curve's end
EndPushedLast ==
  /\ bezier.status = "done"
  /\ bezier.out # <<>>
  /\ bezier.out[Len(bezier.out)] = bezier.curve[Len(bezier.curve)]

FiniteCurve == \A n \in 1..Len(bezier.curve) : ~isNaN(bezier.curve[n])

\* ----------------------------------------------------------------------
\* C28  Adaptive flattening terminates.  For every quadratic or cubic Bezier made
\* from path data, control points that tokenize to NaN included, adaptiveCubic
\* and adaptiveQuad stop recursing after finitely many subdivisions and push the
\* curve's end point as the last vertex.
C28_FlatteningTerminates == <>EndPushedLast

\* What holds of C28: the same for the curves whose coordinates are all numbers
C28_FiniteCurveFlattened == FiniteCurve => <>EndPushedLast

\* ======================================================================
\* Part II claims, continued: <use> and uploads
\* ======================================================================

\* No call of expandUsesInClone deeper than one past the limit is ever made,
\* and no element is cloned by a call past the limit
WithinDepth ==
  /\ \A n \in 1..Len(uses.stack) : uses.stack[n].depth <= useDepthLimit + 1
  /\ uses.deepest <= useDepthLimit

\* ----------------------------------------------------------------------
\* C29  Use/symbol expansion is bounded.  For every document, one whose <use>
\* references form a cycle included, the expansion terminates, stops expanding
\* below nesting depth 15 without a message, and raises no error.
C29_ExpansionBounded ==
  /\ []WithinDepth
  /\ <>(uses.status = "done")

\* A document whose element a refers to itself has been expanded: calls at the
\* depths 0 to 15 cloned it, the call at depth 16 returned at once.
C29_Witness ==
  /\ uses.status = "done"
  /\ uses.doc.a = <<"a">> /\ uses.doc.top = <<"a">>
  /\ uses.deepest = useDepthLimit
  /\ uses.clones = useDepthLimit + 2

\* The indicator agrees with the reads outstanding
IndicatorRight ==
  /\ upload.reading > 0 => upload.isUploading
  /\ upload.pendingUploadsRef >= 0
  /\ upload.reading = 0 => ~upload.isUploading

\* ----------------------------------------------------------------------
\* C30  Upload indicator under overlapping uploads.  For any interleaving of
\* handleFile calls and read completions (onload, onerror), a second selection
\* made while reads of the first are pending included, isUploading is true
\* whenever a file read is outstanding, the pending counter is never negative,
\* and isUploading is false once all reads have completed.
C30_UploadIndicator == IndicatorRight

\* What holds of C30: the same as long as no selection was made while reads
\* were outstanding
C30_IndicatorWithoutOverlap == ~upload.overlapped => IndicatorRight

====
